---------------------------- MODULE Spec2Model ----------------------------
(***************************************************************************)
(* Novel-To-AudioBook: the audio generation core.                          *)
(*                                                                         *)
(*   Spec        the content caches: generateSpeech (ttsPromiseCache) and  *)
(*               generateSFX (sfxCache / sfxPending)                       *)
(*   QueueSpec   AsyncJobQueue, two pools (speech, effects); QueueFairSpec *)
(*               adds that every admitted task eventually settles          *)
(*   MergeSpec   createSpeechTasks, the speech task merger                 *)
(*   TimingSpec  calculateTimings, the timing model                        *)
(*                                                                         *)
(* Time is counted in sample periods (1 / SAMPLE_RATE seconds), texts are  *)
(* sequences of one-character strings, sequence indices are 1-based where  *)
(* the source is 0-based, and 0 stands for an absent map entry / null.     *)
(***************************************************************************)
EXTENDS Integers, Sequences, FiniteSets, TLC

(* ------------------------------ bounds -------------------------------- *)
MaxPromises == 3

MaxTasks == 4

MaxFairTasks == 3

MaxSegs == 3

MaxTimingSegs == 3

(* ------------------------------ state --------------------------------- *)
VARIABLES
  ttsVariant,       \* which generateSpeech the build holds: "part_000" | "part_001"
  ttsPromiseCache,  \* Map<string, Promise<Int16Array>>: key -> promise id, 0 = absent
  sfxCache,         \* Map<string, AudioBuffer>: keyword -> id of the render, 0 = absent
  sfxPending,       \* Map<string, Promise<AudioBuffer>>: keyword -> promise id, 0 = absent
  promises,         \* every producer promise ever created, in creation order
  returned,         \* the most recent generateSpeech / generateSFX call and what it returned
  concurrency,      \* AsyncJobQueue.concurrency, per pool
  active,           \* AsyncJobQueue.active, per pool
  queue,            \* AsyncJobQueue.queue, per pool: the wrappers not yet started
  jobs,             \* every task ever passed to add, in add order
  admitted,         \* per pool, the tasks in the order next() started them
  segments,         \* ParsedSegment[]
  speechTasks,      \* the SpeechTask[] createSpeechTasks returned
  voiceBuffers,     \* (Int16Array | null)[]: each clip's length in samples, or NullBuffer
  timing,           \* what calculateTimings returned
  sfxTrack,         \* what renderSFXTrack rendered: the track's length and the clips it placed
  phase,            \* position of the pure-function runs: "input" | "merged" | "timed"
  sourceText,       \* useState text: the source text in the textarea
  status,           \* useState status: ProcessingState
  parsedData,       \* useState parsedData: <<>> is null, <<result>> an AnalysisResult
  characterProfiles,\* useState characterProfiles: CharacterProfile[]
  audioTracks,      \* useState audioTracks: <<>> is null, <<tracks>> an AudioTracks
  analysisCache,    \* Map<string, AnalysisResult>: trimmed text -> <<>> (absent) or <<result>>
  cachedResult,     \* for each key of analysisCache: the number of the analysis whose
                    \* returned object is the object the map holds, or 0
  analysis,         \* the handleAnalyze call suspended on `await analyzeText(text)`
  jobInfo,          \* for each element of jobs: the task function passed to add
  run,              \* the handleGenerateAudio call and the tasks it submitted
  calls,            \* how often each handler ran and each service was requested
  audioClock,       \* ctx.currentTime of the shared AudioContext, in eighths of a second
  ctxState,         \* ctx.state: "suspended" | "running"
  audioContextRef,  \* audioContextRef.current is set
  isPlaying,        \* useState isPlaying
  progress,         \* useState progress, in percent times the duration of the tracks
  playbackSpeed,    \* useState playbackSpeed, in quarters (4 is 1.0)
  startTimeRef,     \* startTimeRef.current
  pauseTimeRef,     \* pauseTimeRef.current
  previousSpeedRef, \* previousSpeedRef.current
  sourcesRef,       \* sourcesRef.current: per track the source node, or NoNode
  orphans,          \* source nodes started, never stopped and no longer in sourcesRef
  pendingToggles,   \* the togglePlayback calls suspended on `await ctx.resume()`
  transportEvent,   \* the last thing that happened to the transport
  pcmData,          \* the PCM16 samples decoded from a speech response
  trimmedData,      \* what trimSilenceRaw returned for them, applied once and twice
  scoreCall,        \* the request made to generateAdvancedScore and the buffer it returned
  castingCall       \* an analysis result and the profiles handleAnalyze cast for it

cacheVars == <<ttsVariant, ttsPromiseCache, sfxCache, sfxPending, promises, returned>>

queueVars == <<concurrency, active, queue, jobs, admitted>>

pureVars == <<segments, speechTasks, voiceBuffers, timing, sfxTrack, phase>>

appVars ==
  <<sourceText, status, parsedData, characterProfiles, audioTracks, analysisCache,
    cachedResult, analysis, jobInfo, run, calls>>

transportVars ==
  <<audioClock, ctxState, audioContextRef, isPlaying, progress, playbackSpeed,
    startTimeRef, pauseTimeRef, previousSpeedRef, sourcesRef, orphans, pendingToggles,
    transportEvent>>

\* the arguments and results of the functions of the audio engine that are
\* examined on their own
fnVars == <<pcmData, trimmedData, scoreCall, castingCall>>

vars == <<cacheVars, queueVars, pureVars, appVars, transportVars, fnVars>>

(* ------------------------------ texts --------------------------------- *)
IsSpace(c) == c = " "

RECURSIVE TrimStart(_)
TrimStart(s) ==
  IF s # <<>> /\ IsSpace(Head(s)) THEN TrimStart(Tail(s)) ELSE s

RECURSIVE TrimEnd(_)
TrimEnd(s) ==
  IF s # <<>> /\ IsSpace(s[Len(s)]) THEN TrimEnd(SubSeq(s, 1, Len(s) - 1)) ELSE s

\* String.prototype.trim
Trim(s) == TrimEnd(TrimStart(s))

LowerChar(c) ==
  CASE c = "C" -> "c"
    [] c = "T" -> "t"
    [] OTHER -> c

\* String.prototype.toLowerCase
ToLowerCase(s) == [i \in 1..Len(s) |-> LowerChar(s[i])]

(* --------------------------- content cache ---------------------------- *)
TtsVariants == {"part_000", "part_001"}

SpeechTexts == {<<"a">>, <<"a", " ">>, <<"b">>}

SpeechVoices == {"Puck"}

SpeechContexts == {"Narration. Read clear, descriptive tone."}

SfxTypes == {<<"C">>, <<"c">>, <<"t">>}

\* `${voiceName}:${context}:${text.trim()}`
SpeechCacheKey(text, voiceName, context) == <<voiceName, context, Trim(text)>>

SpeechKeys ==
  {SpeechCacheKey(t, v, c) : t \in SpeechTexts, v \in SpeechVoices, c \in SpeechContexts}

SfxCacheKey(type) == ToLowerCase(type)

SfxKeys == {SfxCacheKey(t) : t \in SfxTypes}

\* What the synchronous part of a producer does: reach its await, or throw.
SyncOutcomes == {"suspended", "threw"}

NoReturn == [kind |-> "none", arg |-> <<>>, key |-> <<>>, promise |-> 0, entryBefore |-> 0]

PromisesOf(kind, key) ==
  {p \in DOMAIN promises : promises[p].kind = kind /\ promises[p].key = key}

\* The number of times the producer of a key was invoked.
ProducerCalls(kind, key) == Cardinality(PromisesOf(kind, key))

SettledAs(p, st) == p # 0 /\ promises[p].state = st

TtsHasNever(key) == FALSE

\* ttsPromiseCache.has(cacheKey)
TtsHas(key) == ttsPromiseCache[key] # 0

\* The catch block of the producer exists only in part_001.
EvictsOnError == ttsVariant = "part_001"

TtsAfterCatch(cache, key) ==
  IF EvictsOnError THEN [cache EXCEPT ![key] = 0] ELSE cache

\* generateSpeech: the call, up to the producer's first await.
GenerateSpeech(text, voiceName, context, sync) ==
  LET key == SpeechCacheKey(text, voiceName, context)
      p == Len(promises) + 1
  IN  /\ IF TtsHas(key)
           THEN /\ sync = "suspended"
                /\ returned' = [kind |-> "tts", arg |-> text, key |-> key,
                                promise |-> ttsPromiseCache[key],
                                entryBefore |-> ttsPromiseCache[key]]
                /\ UNCHANGED <<ttsPromiseCache, promises>>
           ELSE /\ Len(promises) < MaxPromises
                /\ promises' = Append(promises,
                     [kind |-> "tts", key |-> key,
                      state |-> IF sync = "threw" THEN "rejected" ELSE "pending"])
                \* the producer runs first (its catch deletes), then set(cacheKey, task)
                /\ ttsPromiseCache' =
                     [(IF sync = "threw" THEN TtsAfterCatch(ttsPromiseCache, key)
                       ELSE ttsPromiseCache) EXCEPT ![key] = p]
                /\ returned' = [kind |-> "tts", arg |-> text, key |-> key, promise |-> p,
                                entryBefore |-> ttsPromiseCache[key]]
      /\ UNCHANGED <<ttsVariant, sfxCache, sfxPending, queueVars, pureVars, appVars, transportVars, fnVars>>

TtsAfterSuccessEvict(cache, key) == [cache EXCEPT ![key] = 0]

\* Nothing touches the cache when the producer returns its audio.
TtsAfterSuccess(cache, key) == cache

\* The Speech Synthesis Service answers: the producer resumes after its await.
SpeechServiceReturn(p, ok) ==
  /\ p \in DOMAIN promises
  /\ promises[p].kind = "tts"
  /\ promises[p].state = "pending"
  /\ promises' = [promises EXCEPT ![p].state = IF ok THEN "fulfilled" ELSE "rejected"]
  /\ ttsPromiseCache' = IF ok THEN TtsAfterSuccess(ttsPromiseCache, promises[p].key)
                        ELSE TtsAfterCatch(ttsPromiseCache, promises[p].key)
  /\ UNCHANGED <<ttsVariant, sfxCache, sfxPending, returned, queueVars, pureVars, appVars, transportVars, fnVars>>

\* generateSFX: the call, up to the await of ctx.startRendering().
GenerateSFX(type, sync) ==
  LET key == SfxCacheKey(type)
      p == Len(promises) + 1
  IN  /\ IF sfxCache[key] # 0
           THEN /\ sync = "suspended"
                /\ returned' = [kind |-> "sfx", arg |-> type, key |-> key,
                                promise |-> sfxCache[key],
                                entryBefore |-> sfxCache[key]]
                /\ UNCHANGED <<sfxPending, promises>>
           ELSE IF sfxPending[key] # 0
           THEN /\ sync = "suspended"
                /\ returned' = [kind |-> "sfx", arg |-> type, key |-> key,
                                promise |-> sfxPending[key],
                                entryBefore |-> sfxPending[key]]
                /\ UNCHANGED <<sfxPending, promises>>
           ELSE /\ Len(promises) < MaxPromises
                /\ promises' = Append(promises,
                     [kind |-> "sfx", key |-> key,
                      state |-> IF sync = "threw" THEN "rejected" ELSE "pending"])
                /\ sfxPending' = [sfxPending EXCEPT ![key] = p]
                /\ returned' = [kind |-> "sfx", arg |-> type, key |-> key, promise |-> p,
                                entryBefore |-> 0]
      /\ UNCHANGED <<ttsVariant, ttsPromiseCache, sfxCache, queueVars, pureVars, appVars, transportVars, fnVars>>

\* ctx.startRendering() settles: the render resumes after its await.
SfxRenderReturn(p, ok) ==
  /\ p \in DOMAIN promises
  /\ promises[p].kind = "sfx"
  /\ promises[p].state = "pending"
  /\ promises' = [promises EXCEPT ![p].state = IF ok THEN "fulfilled" ELSE "rejected"]
  /\ IF ok
       THEN /\ sfxCache' = [sfxCache EXCEPT ![promises[p].key] = p]
            /\ sfxPending' = [sfxPending EXCEPT ![promises[p].key] = 0]
       ELSE UNCHANGED <<sfxCache, sfxPending>>
  /\ UNCHANGED <<ttsVariant, ttsPromiseCache, returned, queueVars, pureVars, appVars, transportVars, fnVars>>

(* ------------------------- idle parts of a run ------------------------ *)
Pools == {"tts", "sfx"}

CacheIdle ==
  /\ ttsVariant = "part_001"
  /\ ttsPromiseCache = [k \in SpeechKeys |-> 0]
  /\ sfxCache = [k \in SfxKeys |-> 0]
  /\ sfxPending = [k \in SfxKeys |-> 0]
  /\ promises = <<>>
  /\ returned = NoReturn

QueueIdle ==
  /\ concurrency = [p \in Pools |-> 1]
  /\ active = [p \in Pools |-> 0]
  /\ queue = [p \in Pools |-> <<>>]
  /\ jobs = <<>>
  /\ admitted = [p \in Pools |-> <<>>]

\* const DEFAULT_TEXT: what the textarea holds when the page loads
DEFAULT_TEXT == <<"x">>

\* What the user can put into the textarea: a blank text, and two texts that
\* differ only in the white space around them.
Texts == {<<" ">>, DEFAULT_TEXT, <<"x", " ">>}

\* const cacheKey = text.trim()
AnalysisCacheKey(t) == Trim(t)

AnalysisKeys == {AnalysisCacheKey(t) : t \in Texts}

\* no handleAnalyze call is suspended
NoAnalysis == [state |-> "none", key |-> <<>>, requested |-> FALSE]

\* no handleGenerateAudio call has been made
NoRun == [pc |-> "none", jobs |-> {}, awaits |-> {}, mixes |-> 0]

NoCalls == [handleAnalyze |-> 0, blank |-> 0, generateContent |-> 0,
            prefetchAudio |-> 0, generateTrackBuffers |-> 0]

\* The component as React builds it, with the maps of the service module empty.
AppIdle ==
  /\ sourceText = DEFAULT_TEXT
  /\ status = "idle"
  /\ parsedData = <<>>
  /\ characterProfiles = <<>>
  /\ audioTracks = <<>>
  /\ analysisCache = [k \in AnalysisKeys |-> <<>>]
  /\ cachedResult = [k \in AnalysisKeys |-> 0]
  /\ analysis = NoAnalysis
  /\ jobInfo = <<>>
  /\ run = NoRun
  /\ calls = NoCalls

\* ['dialogue', 'score', 'ambience', 'sfx']
TrackKeys == {"dialogue", "score", "ambience", "sfx"}

\* a null entry of sourcesRef.current
NoNode == [offset |-> -1, rate |-> 0, loop |-> FALSE]

\* useState(1.0), in quarters
DefaultSpeed == 4

\* The transport as React builds it: nothing plays, no context is referenced.
TransportIdle ==
  /\ audioClock = 0
  /\ ctxState = "suspended"
  /\ audioContextRef = FALSE
  /\ isPlaying = FALSE
  /\ progress = 0
  /\ playbackSpeed = DefaultSpeed
  /\ startTimeRef = 0
  /\ pauseTimeRef = 0
  /\ previousSpeedRef = DefaultSpeed
  /\ sourcesRef = [k \in TrackKeys |-> NoNode]
  /\ orphans = {}
  /\ pendingToggles = <<>>
  /\ transportEvent = [op |-> "none", polled |-> FALSE]

\* no function of the audio engine has been called on its own
FnIdle ==
  /\ pcmData = <<>>
  /\ trimmedData = <<>>
  /\ scoreCall = <<>>
  /\ castingCall = <<>>

PureIdle ==
  /\ segments = <<>>
  /\ speechTasks = <<>>
  /\ voiceBuffers = <<>>
  /\ timing = [startTimes |-> <<>>, totalDuration |-> 0]
  /\ sfxTrack = [length |-> 0, clips |-> {}]
  /\ phase = "input"

(* ----------------------- Spec: the content caches --------------------- *)
Init ==
  /\ ttsVariant \in TtsVariants
  /\ ttsPromiseCache = [k \in SpeechKeys |-> 0]
  /\ sfxCache = [k \in SfxKeys |-> 0]
  /\ sfxPending = [k \in SfxKeys |-> 0]
  /\ promises = <<>>
  /\ returned = NoReturn
  /\ QueueIdle
  /\ PureIdle
  /\ AppIdle
  /\ TransportIdle
  /\ FnIdle

CallGenerateSpeech ==
  \E t \in SpeechTexts, v \in SpeechVoices, c \in SpeechContexts, s \in SyncOutcomes :
    GenerateSpeech(t, v, c, s)

SpeechReturns == \E p \in 1..MaxPromises, ok \in BOOLEAN : SpeechServiceReturn(p, ok)

CallGenerateSFX == \E t \in SfxTypes, s \in SyncOutcomes : GenerateSFX(t, s)

SfxReturns == \E p \in 1..MaxPromises, ok \in BOOLEAN : SfxRenderReturn(p, ok)

Next == CallGenerateSpeech \/ SpeechReturns \/ CallGenerateSFX \/ SfxReturns

Spec == Init /\ [][Next]_vars

(* --------------------- claims on the content caches ------------------- *)
CallsIn(ps, kind, key) ==
  Cardinality({p \in DOMAIN ps : ps[p].kind = kind /\ ps[p].key = key})

\* The step is a generateSpeech / generateSFX call for this key.
IsCallFor(kind, key) ==
  /\ returned' # returned
  /\ returned'.kind = kind
  /\ returned'.key = key

SpeechHitReturnsEntry ==
  \A k \in SpeechKeys :
    (ttsPromiseCache[k] # 0 /\ IsCallFor("tts", k)) =>
      /\ returned'.promise = ttsPromiseCache[k]
      /\ CallsIn(promises', "tts", k) = CallsIn(promises, "tts", k)

OneEntryPerProducerCall ==
  \A k \in SpeechKeys :
    /\ Cardinality({p \in PromisesOf("tts", k) : promises[p].state # "rejected"}) <= 1
    /\ ttsPromiseCache[k] = 0 =>
         \A p \in PromisesOf("tts", k) : promises[p].state = "rejected"

(* C1: speech cache deduplication. A generateSpeech call made while its key  *)
(* (voice id, delivery instruction, trimmed text) has an entry, in flight or *)
(* completed, returns that entry's handle and does not invoke the producer:  *)
(* the producer of a key runs once per entry, never twice for a live one.    *)
C1_SpeechDedup == []OneEntryPerProducerCall /\ [][SpeechHitReturnsEntry]_vars

\* A second call, whose text has a trailing space, got the handle of the request
\* in flight for the trimmed text; the producer of the key has run once.
C1_Witness ==
  /\ returned.kind = "tts"
  /\ returned.arg # returned.key[3]
  /\ returned.entryBefore # 0
  /\ returned.promise = returned.entryBefore
  /\ promises[returned.promise].state = "pending"
  /\ ProducerCalls("tts", returned.key) = 1

(* C2: speech failure eviction. Whenever a speech request has failed, the    *)
(* cache holds no entry for its key, so the next call invokes the producer   *)
(* again: no key of ttsPromiseCache maps to a rejected promise.              *)
C2_SpeechFailureEvicted ==
  \A k \in SpeechKeys : ~SettledAs(ttsPromiseCache[k], "rejected")

(* C3: effect failure eviction. Whenever an effect render has failed, its    *)
(* keyword has no failing entry in sfxPending nor in sfxCache, so a later    *)
(* generateSFX call starts a new render.                                     *)
C3_EffectFailureEvicted ==
  \A k \in SfxKeys :
    /\ ~SettledAs(sfxPending[k], "rejected")
    /\ ~SettledAs(sfxCache[k], "rejected")

SuccessRetained ==
  \A p \in DOMAIN promises :
    promises[p].state = "fulfilled" =>
      IF promises[p].kind = "tts"
        THEN ttsPromiseCache[promises[p].key] = p
        ELSE sfxCache[promises[p].key] = p

SuccessReused ==
  /\ \A k \in SpeechKeys :
       (SettledAs(ttsPromiseCache[k], "fulfilled") /\ IsCallFor("tts", k)) =>
         /\ returned'.promise = ttsPromiseCache[k]
         /\ promises' = promises
  /\ \A k \in SfxKeys :
       (sfxCache[k] # 0 /\ IsCallFor("sfx", k)) =>
         /\ returned'.promise = sfxCache[k]
         /\ promises' = promises

(* C4: successful entries are retained for the session. Every producer that  *)
(* succeeded is still the entry of its key (speech key in ttsPromiseCache,   *)
(* effect keyword in sfxCache) whatever happened to other keys since, and a  *)
(* later call with that key returns the stored result and starts no          *)
(* producer; so an effect keyword that rendered is never rendered again.     *)
C4_SuccessRetained == []SuccessRetained /\ [][SuccessReused]_vars

\* Both caches hold a success, another key has failed, and a later call for
\* the rendered keyword, in upper case, got the stored result.
C4_Witness ==
  /\ returned.kind = "sfx"
  /\ returned.arg # returned.key
  /\ returned.entryBefore # 0
  /\ SettledAs(returned.promise, "fulfilled")
  /\ sfxCache[returned.key] = returned.promise
  /\ \E k \in SpeechKeys : SettledAs(ttsPromiseCache[k], "fulfilled")
  /\ \E p \in DOMAIN promises : promises[p].state = "rejected"

(* ---------------------------- AsyncJobQueue --------------------------- *)
NewJob(pool) ==
  [pool |-> pool, state |-> "queued", delivered |-> "none", releases |-> 0]

\* The tasks of a pool, in the order add was called.
RECURSIVE AddOrder(_, _)
AddOrder(js, pool) ==
  IF js = <<>> THEN <<>>
  ELSE AddOrder(SubSeq(js, 1, Len(js) - 1), pool)
         \o (IF js[Len(js)].pool = pool THEN <<Len(js)>> ELSE <<>>)

Running(pool) == {t \in DOMAIN jobs : jobs[t].pool = pool /\ jobs[t].state = "running"}

NextAdmitsOffByOne(act, q, conc) == ~(act > conc \/ Len(q) = 0)

\* next(): if (this.active >= this.concurrency || this.queue.length === 0) return;
NextAdmits(act, q, conc) == ~(act >= conc \/ Len(q) = 0)

ShiftIndexLast(q) == Len(q)

\* this.queue.shift() takes the first element
ShiftIndex(q) == 1

RemoveAt(q, i) == SubSeq(q, 1, i - 1) \o SubSeq(q, i + 1, Len(q))

\* next(), on a pool whose counter is act and whose queue is q: the counter and
\* the queue it leaves, and the wrapper it started (none or one).
next(pool, act, q) ==
  IF NextAdmits(act, q, concurrency[pool])
    THEN [active |-> act + 1,
          queue |-> RemoveAt(q, ShiftIndex(q)),
          started |-> <<q[ShiftIndex(q)]>>]
    ELSE [active |-> act, queue |-> q, started |-> <<>>]

\* A started wrapper calls its task and suspends on `await task()`.
StartWrappers(js, started) ==
  [t \in DOMAIN js |->
     IF \E i \in DOMAIN started : started[i] = t
       THEN [js[t] EXCEPT !.state = "running"]
       ELSE js[t]]

\* add(task): this.queue.push(wrapper); this.next();
add(pool) ==
  LET t == Len(jobs) + 1
      r == next(pool, active[pool], Append(queue[pool], t))
  IN  /\ Len(jobs) < MaxTasks
      /\ active' = [active EXCEPT ![pool] = r.active]
      /\ queue' = [queue EXCEPT ![pool] = r.queue]
      /\ jobs' = StartWrappers(Append(jobs, NewJob(pool)), r.started)
      /\ admitted' = [admitted EXCEPT ![pool] = @ \o r.started]
      /\ UNCHANGED <<concurrency, cacheVars, pureVars, appVars, transportVars, fnVars>>

FinallyWithoutNext(pool, act, q) == [active |-> act - 1, queue |-> q, started |-> <<>>]

\* finally { this.active--; this.next(); }
Finally(pool, act, q) == next(pool, act - 1, q)

\* The task's promise settles and its wrapper resumes: resolve(result) or
\* reject(e), then the finally block.
WrapperResumes(t, ok) ==
  LET pool == jobs[t].pool
      r == Finally(pool, active[pool], queue[pool])
  IN  /\ t \in DOMAIN jobs
      /\ jobs[t].state = "running"
      /\ active' = [active EXCEPT ![pool] = r.active]
      /\ queue' = [queue EXCEPT ![pool] = r.queue]
      /\ jobs' = StartWrappers(
                   [jobs EXCEPT ![t] = [@ EXCEPT !.state = IF ok THEN "resolved" ELSE "rejected",
                                                 !.delivered = IF ok THEN "result" ELSE "error",
                                                 !.releases = @ + 1]],
                   r.started)
      /\ admitted' = [admitted EXCEPT ![pool] = @ \o r.started]
      /\ UNCHANGED <<concurrency, cacheVars, pureVars, appVars, transportVars, fnVars>>

(* ------------------------ QueueSpec: the two pools -------------------- *)
\* const ttsQueue = new AsyncJobQueue(16)
TtsConcurrency == 16

\* const sfxQueue = new AsyncJobQueue(8)
SfxConcurrency == 8

\* The constructor arguments: the program's own, and small ones under which
\* a few tasks fill a pool.
Concurrencies(pool) ==
  {1, 2} \cup {IF pool = "tts" THEN TtsConcurrency ELSE SfxConcurrency}

QueueInit ==
  /\ concurrency \in {c \in [Pools -> {1, 2, TtsConcurrency, SfxConcurrency}] :
                        \A p \in Pools : c[p] \in Concurrencies(p)}
  /\ active = [p \in Pools |-> 0]
  /\ queue = [p \in Pools |-> <<>>]
  /\ jobs = <<>>
  /\ admitted = [p \in Pools |-> <<>>]
  /\ CacheIdle
  /\ PureIdle
  /\ AppIdle
  /\ TransportIdle
  /\ FnIdle

AddTask == \E pool \in Pools : add(pool)

TaskSettles(t) == \E ok \in BOOLEAN : WrapperResumes(t, ok)

SettleTask == \E t \in 1..MaxTasks : TaskSettles(t)

QueueNext == AddTask \/ SettleTask

QueueSpec == QueueInit /\ [][QueueNext]_vars

AddFewTasks == Len(jobs) < MaxFairTasks /\ AddTask

QueueFairNext == AddFewTasks \/ SettleTask

\* The same pools under the assumption that every admitted task eventually
\* settles.
QueueFairSpec ==
  QueueInit /\ [][QueueFairNext]_vars /\ \A t \in 1..MaxTasks : WF_vars(TaskSettles(t))

(* ------------------------ claims on AsyncJobQueue --------------------- *)
(* C5: bounded concurrency. In every reachable state of a pool, active is   *)
(* the number of admitted tasks that have not settled, and                  *)
(* 0 <= active <= concurrency.                                              *)
C5_BoundedConcurrency ==
  \A p \in Pools :
    /\ active[p] = Cardinality(Running(p))
    /\ 0 <= active[p]
    /\ active[p] <= concurrency[p]

\* A pool is full with a task waiting behind, after a failure and a success.
C5_Witness ==
  \E p \in Pools :
    /\ active[p] = concurrency[p]
    /\ queue[p] # <<>>
    /\ \E t \in DOMAIN jobs : jobs[t].pool = p /\ jobs[t].state = "rejected"
    /\ \E t \in DOMAIN jobs : jobs[t].pool = p /\ jobs[t].state = "resolved"

(* C6: FIFO admission. In each pool the tasks were started in exactly the   *)
(* order add was called, the waiting ones are the rest of that order, and a *)
(* task waits only while its own pool is full, whatever the other pool does *)
(* and in whatever order running tasks complete.                            *)
C6_FifoAdmission ==
  \A p \in Pools :
    /\ admitted[p] \o queue[p] = AddOrder(jobs, p)
    /\ queue[p] # <<>> => active[p] = concurrency[p]

\* A later task completed before an earlier one of its pool, a task that had
\* to wait was then admitted, and the other pool is busy too.
C6_Witness ==
  \E p \in Pools, t, u \in DOMAIN jobs :
    /\ t < u
    /\ jobs[t].pool = p /\ jobs[u].pool = p
    /\ jobs[t].state = "running"
    /\ jobs[u].state \in {"resolved", "rejected"}
    /\ Len(admitted[p]) > concurrency[p]
    /\ \E q \in Pools \ {p} : active[q] > 0

Queued(t) == t \in DOMAIN jobs /\ jobs[t].state = "queued"

SlotAccounting ==
  \A t \in DOMAIN jobs :
    CASE jobs[t].state \in {"queued", "running"} ->
           jobs[t].releases = 0 /\ jobs[t].delivered = "none"
      [] jobs[t].state = "resolved" ->
           jobs[t].releases = 1 /\ jobs[t].delivered = "result"
      [] jobs[t].state = "rejected" ->
           jobs[t].releases = 1 /\ jobs[t].delivered = "error"

NoCancellation ==
  \A t \in DOMAIN jobs :
    /\ jobs[t].state = "running" => jobs'[t].state # "queued"
    /\ jobs[t].state \in {"resolved", "rejected"} => jobs'[t] = jobs[t]
    \* a settling task hands its slot to the head of the queue
    /\ (jobs[t].state = "running" /\ jobs'[t].state # "running"
          /\ queue[jobs[t].pool] # <<>>) =>
         jobs'[Head(queue[jobs[t].pool])].state = "running"

(* C7: no cancellation and no lost slot. An admitted task stays running     *)
(* until it completes or fails; then its slot is released exactly once, its *)
(* result or error is delivered to the caller of add and the next queued    *)
(* task is admitted; and, every admitted task settling eventually, every    *)
(* queued task is eventually admitted.                                      *)
C7_NoLostSlot ==
  /\ []SlotAccounting
  /\ [][NoCancellation]_vars
  /\ \A t \in 1..MaxTasks : Queued(t) ~> ~Queued(t)

\* A task that waited in the queue was admitted when a failing task settled.
C7_Witness ==
  \E p \in Pools, t, u \in DOMAIN jobs :
    /\ jobs[t].pool = p /\ jobs[u].pool = p
    /\ jobs[t].state = "rejected"
    /\ jobs[u].state = "running"
    /\ Len(admitted[p]) > concurrency[p]
    /\ admitted[p][Len(admitted[p])] = u

(* -------------------------- ParsedSegment ----------------------------- *)
\* sfx "" stands for an absent, null or empty keyword, speechDuration 0 for an
\* absent or zero one: JavaScript treats each of them as false.
Segment(text, speaker, isNarrator, sfx, speechDuration) ==
  [text |-> text, speaker |-> speaker, isNarrator |-> isNarrator, sfx |-> sfx,
   speechDuration |-> speechDuration]

\* !seg.sfx is false
HasSfx(seg) == seg.sfx # ""

(* ------------------------- createSpeechTasks -------------------------- *)
\* /[.!?"]$/.test(currentTask.textToSpeak) ? " " : " "
Separator(textToSpeak) ==
  IF textToSpeak # <<>> /\ textToSpeak[Len(textToSpeak)] \in {".", "!", "?", "\""}
    THEN <<" ">>
    ELSE <<" ">>

CanMergeIgnoringPrevSfx(segs, currentTask, seg) ==
  /\ seg.speaker = currentTask.speaker
  /\ seg.isNarrator = currentTask.isNarrator
  /\ ~HasSfx(seg)

CanMerge(segs, currentTask, seg) ==
  LET prevSeg == segs[currentTask.indices[Len(currentTask.indices)]]
  IN  /\ seg.speaker = currentTask.speaker
      /\ seg.isNarrator = currentTask.isNarrator
      /\ ~HasSfx(seg)
      /\ ~HasSfx(prevSeg)

MergeOverwritingText(currentTask, seg, index) ==
  [currentTask EXCEPT !.indices = Append(@, index), !.textToSpeak = seg.text]

\* currentTask.indices.push(index); currentTask.textToSpeak += separator + seg.text
Merge(currentTask, seg, index) ==
  [currentTask EXCEPT !.indices = Append(@, index),
                      !.textToSpeak = @ \o Separator(@) \o seg.text]

NewTask(seg, index) ==
  [startIndex |-> index, indices |-> <<index>>, textToSpeak |-> seg.text,
   speaker |-> seg.speaker, isNarrator |-> seg.isNarrator]

\* segments.forEach, from index on; current holds currentTask, or nothing (null)
RECURSIVE ForEachSegment(_, _, _, _)
ForEachSegment(segs, index, tasks, current) ==
  IF index > Len(segs) THEN tasks \o current
  ELSE IF current # <<>> /\ CanMerge(segs, current[1], segs[index])
    THEN ForEachSegment(segs, index + 1, tasks, <<Merge(current[1], segs[index], index)>>)
    ELSE ForEachSegment(segs, index + 1, tasks \o current, <<NewTask(segs[index], index)>>)

createSpeechTasks(segs) == ForEachSegment(segs, 1, <<>>, <<>>)

(* -------------------------- calculateTimings -------------------------- *)
SAMPLE_RATE == 24000

\* a null entry of voiceBuffers
NullBuffer == -1

\* currentTime += 0.12, in sample periods
InterSegmentGap == (12 * SAMPLE_RATE) \div 100

\* maxDuration + 1.0, in sample periods
TailTime == 1 * SAMPLE_RATE

\* buf ? buf.length / SAMPLE_RATE : 0, in sample periods
RawDur(buf) == IF buf # NullBuffer THEN buf ELSE 0

\* segments[i].speechDuration || rawDur
ContentLen(seg, rawDur) == IF seg.speechDuration # 0 THEN seg.speechDuration ELSE rawDur

AudioEndWithoutClip(currentTime, rawDur) == currentTime

AudioEnd(currentTime, rawDur) == currentTime + rawDur

\* the body of the for loop, for segment i
RECURSIVE TimingLoop(_, _, _, _)
TimingLoop(bufs, segs, i, st) ==
  IF i > Len(segs) THEN st
  ELSE LET rawDur == RawDur(bufs[i])
           contentLen == ContentLen(segs[i], rawDur)
           audioEnd == AudioEnd(st.currentTime, rawDur)
       IN  TimingLoop(bufs, segs, i + 1,
             [startTimes |-> Append(st.startTimes, st.currentTime),
              maxDuration |-> IF audioEnd > st.maxDuration THEN audioEnd
                              ELSE st.maxDuration,
              currentTime |-> st.currentTime + contentLen
                                + (IF contentLen > 0 THEN InterSegmentGap ELSE 0)])

calculateTimings(bufs, segs) ==
  LET st == TimingLoop(bufs, segs, 1,
              [startTimes |-> <<>>, maxDuration |-> 0, currentTime |-> 0])
  IN  [startTimes |-> st.startTimes, totalDuration |-> st.maxDuration + TailTime]

\* the running time (currentTime) when the for loop of calculateTimings ends
RunningTime(bufs, segs) ==
  TimingLoop(bufs, segs, 1,
    [startTimes |-> <<>>, maxDuration |-> 0, currentTime |-> 0]).currentTime

\* the largest clip end (maxDuration) when the for loop of calculateTimings ends
MaxClipEnd(bufs, segs) ==
  TimingLoop(bufs, segs, 1,
    [startTimes |-> <<>>, maxDuration |-> 0, currentTime |-> 0]).maxDuration

\* new OfflineAudioContext(1, sampleRate * 4, sampleRate): every effect clip
\* generateSFX renders lasts four seconds
SfxClipLength == 4 * SAMPLE_RATE

\* renderSFXTrack: an offline context of floor(sampleRate * totalDuration)
\* frames, and one effect clip started at startTimes[i] for each segment i
\* that has an effect; frames past the context's length are not rendered
renderSFXTrack(totalDuration, segs, startTimes) ==
  [length |-> totalDuration,
   clips  |-> {[segment |-> i, start |-> startTimes[i], length |-> SfxClipLength] :
                 i \in {j \in DOMAIN segs : HasSfx(segs[j])}}]

(* ------------------- MergeSpec: the speech task merger ---------------- *)
MergeTexts == {<<"a">>, <<"b", ".">>}

MergeSpeakers == {"Narrator", "Sarah"}

MergeSfx == {"", "creak"}

MergeSegments ==
  {Segment(t, sp, n, fx, 0) :
     t \in MergeTexts, sp \in MergeSpeakers, n \in BOOLEAN, fx \in MergeSfx}

MergeInit == CacheIdle /\ QueueIdle /\ PureIdle /\ AppIdle /\ TransportIdle /\ FnIdle

AddSegment ==
  /\ phase = "input"
  /\ Len(segments) < MaxSegs
  /\ \E seg \in MergeSegments : segments' = Append(segments, seg)
  /\ UNCHANGED <<speechTasks, voiceBuffers, timing, sfxTrack, phase, cacheVars, queueVars, appVars, transportVars, fnVars>>

RunCreateSpeechTasks ==
  /\ phase = "input"
  /\ speechTasks' = createSpeechTasks(segments)
  /\ phase' = "merged"
  /\ UNCHANGED <<segments, voiceBuffers, timing, sfxTrack, cacheVars, queueVars, appVars, transportVars, fnVars>>

MergeNext == AddSegment \/ RunCreateSpeechTasks

MergeSpec == MergeInit /\ [][MergeNext]_vars

(* ---------------------- TimingSpec: the timing model ------------------ *)
ClipLengths == {NullBuffer, 0, 24000, 60000}

SpeechDurations == {0, 12000, 36000}

TimingSegments ==
  {Segment(<<"a">>, "Sarah", FALSE, "", d) : d \in SpeechDurations}
    \cup {Segment(<<"a">>, "Narrator", TRUE, "t", d) : d \in SpeechDurations}

TimingInit == CacheIdle /\ QueueIdle /\ PureIdle /\ AppIdle /\ TransportIdle /\ FnIdle

AddTimedSegment ==
  /\ phase = "input"
  /\ Len(segments) < MaxTimingSegs
  /\ \E seg \in TimingSegments, buf \in ClipLengths :
       /\ segments' = Append(segments, seg)
       /\ voiceBuffers' = Append(voiceBuffers, buf)
  /\ UNCHANGED <<speechTasks, timing, sfxTrack, phase, cacheVars, queueVars, appVars, transportVars, fnVars>>

\* generateTrackBuffers as far as the timeline goes: the timing it computes
\* first and the effect track it renders from that timing
RunCalculateTimings ==
  /\ phase = "input"
  /\ timing' = calculateTimings(voiceBuffers, segments)
  /\ sfxTrack' = renderSFXTrack(timing'.totalDuration, segments, timing'.startTimes)
  /\ phase' = "timed"
  /\ UNCHANGED <<segments, speechTasks, voiceBuffers, cacheVars, queueVars, appVars, transportVars, fnVars>>

TimingNext == AddTimedSegment \/ RunCalculateTimings

TimingSpec == TimingInit /\ [][TimingNext]_vars

(* ---------------------- claims on the task merger --------------------- *)
Indices(k) == {speechTasks[k].indices[n] : n \in DOMAIN speechTasks[k].indices}

SameTask(i, j) == \E k \in DOMAIN speechTasks : i \in Indices(k) /\ j \in Indices(k)

\* Segment i matches the task that holds segment i - 1, the current task when
\* segment i is scanned.
MatchesCurrentTask(i) ==
  \E k \in DOMAIN speechTasks :
    /\ (i - 1) \in Indices(k)
    /\ segments[i].speaker = speechTasks[k].speaker
    /\ segments[i].isNarrator = speechTasks[k].isNarrator

StartsTask(i) ==
  \E k \in DOMAIN speechTasks :
    /\ speechTasks[k].startIndex = i
    /\ Head(speechTasks[k].indices) = i
    /\ speechTasks[k].speaker = segments[i].speaker
    /\ speechTasks[k].isNarrator = segments[i].isNarrator

(* C8: the Task Merger rule. Segment i is put into the task of segment i-1  *)
(* if and only if it has the speaker and the narrator flag of that task and *)
(* neither segment i nor segment i-1 (the last of the current task) carries *)
(* an effect keyword; otherwise it starts a new task.                       *)
C8_MergeRule ==
  phase = "merged" =>
    /\ segments # <<>> => StartsTask(1)
    /\ \A i \in 2..Len(segments) :
         /\ SameTask(i - 1, i) <=>
              (MatchesCurrentTask(i) /\ ~HasSfx(segments[i]) /\ ~HasSfx(segments[i - 1]))
         /\ ~SameTask(i - 1, i) => StartsTask(i)

\* Three segments of one speaker, the middle one with an effect: without it
\* the outer two would merge, with it each is a task of its own.
C8_Witness ==
  /\ phase = "merged"
  /\ Len(segments) = 3
  /\ \A i \in 1..3 : segments[i].speaker = "Sarah" /\ ~segments[i].isNarrator
  /\ ~HasSfx(segments[1]) /\ HasSfx(segments[2]) /\ ~HasSfx(segments[3])
  /\ Len(speechTasks) = 3

RECURSIVE Flatten(_)
Flatten(ss) == IF ss = <<>> THEN <<>> ELSE Head(ss) \o Flatten(Tail(ss))

RECURSIVE JoinWithSpace(_)
JoinWithSpace(texts) ==
  IF Len(texts) <= 1 THEN Flatten(texts)
  ELSE Head(texts) \o <<" ">> \o JoinWithSpace(Tail(texts))

TaskTexts == [k \in DOMAIN speechTasks |-> speechTasks[k].textToSpeak]

SegmentTexts == [i \in DOMAIN segments |-> segments[i].text]

TaskIndices == Flatten([k \in DOMAIN speechTasks |-> speechTasks[k].indices])

(* C9 as stated: the texts of the tasks, concatenated in task order, equal   *)
(* the texts of the segments, concatenated in segment order.                 *)
C9_ConcatenationEqual ==
  phase = "merged" => Flatten(TaskTexts) = Flatten(SegmentTexts)

(* C9, amended: Task Merger conservation. Every segment index occurs in      *)
(* exactly one task, in increasing order over the tasks, and the text of a   *)
(* task is the texts of its segments, in order, joined by one space: the     *)
(* tasks' texts are the segments' texts, none lost and none duplicated, with *)
(* one separating space between segments merged into the same task.          *)
C9_Conservation ==
  phase = "merged" =>
    /\ TaskIndices = [i \in 1..Len(segments) |-> i]
    /\ \A k \in DOMAIN speechTasks :
         speechTasks[k].textToSpeak =
           JoinWithSpace([n \in DOMAIN speechTasks[k].indices |->
                            segments[speechTasks[k].indices[n]].text])

\* A merged task of two segments with different texts, followed by another task.
C9_Witness ==
  /\ phase = "merged"
  /\ Len(speechTasks) = 2
  /\ Len(speechTasks[1].indices) = 2
  /\ segments[1].text # segments[2].text

(* ---------------------- claims on the timing model -------------------- *)
(* C10: the timeline invariant. calculateTimings returns one start offset   *)
(* per segment, non-decreasing in segment order, and a total duration that  *)
(* is at least start offset + raw clip length for every segment that owns a *)
(* clip.                                                                    *)
C10_TimelineInvariant ==
  phase = "timed" =>
    /\ Len(timing.startTimes) = Len(segments)
    /\ \A i, j \in DOMAIN segments :
         i <= j => timing.startTimes[i] <= timing.startTimes[j]
    /\ \A i \in DOMAIN segments :
         voiceBuffers[i] # NullBuffer =>
           timing.totalDuration >= timing.startTimes[i] + voiceBuffers[i]

\* A clip longer than the tail and than its segment's speech duration, placed
\* after the start, next to a segment that takes no time at all.
C10_Witness ==
  /\ phase = "timed"
  /\ \E i, j \in DOMAIN segments :
       /\ timing.startTimes[i] > 0
       /\ voiceBuffers[i] > TailTime
       /\ voiceBuffers[i] > segments[i].speechDuration
       /\ segments[i].speechDuration > 0
       /\ j < i
       /\ timing.startTimes[j] = timing.startTimes[j + 1]


(* --------------------- the total duration (C11, C12) ------------------ *)
Max(a, b) == IF a >= b THEN a ELSE b

Min(a, b) == IF a <= b THEN a ELSE b

\* C11: the total duration calculateTimings returns is the larger of the
\* largest clip end and the running time after the last segment, plus the
\* one second tail.
C11_TotalDurationFormula ==
  phase = "timed" =>
    timing.totalDuration
      = Max(MaxClipEnd(voiceBuffers, segments), RunningTime(voiceBuffers, segments))
          + TailTime

\* C12: every effect clip placed on the effect track ends no later than the
\* track does, so the four seconds of every effect fit in the mix.
C12_EffectClipsFit ==
  phase = "timed" =>
    \A c \in sfxTrack.clips : c.start + c.length <= sfxTrack.length


(* ----------------------- the component's data -------------------------- *)
\* how many times the Analyze button is pressed on a text that is not blank
MaxAnalyses == 1

\* how many times the Analyze button is pressed on a blank text
MaxBlankClicks == 1

IsBlankWhenEmpty(t) == t = <<>>

\* !text.trim()
IsBlank(t) == Trim(t) = <<>>

\* AVAILABLE_VOICES
AVAILABLE_VOICES ==
  <<[id |-> "Puck", gender |-> "male"],
    [id |-> "Kore", gender |-> "female"],
    [id |-> "Fenrir", gender |-> "male"],
    [id |-> "Charon", gender |-> "male"],
    [id |-> "Zephyr", gender |-> "female"]>>

VoiceIds == {AVAILABLE_VOICES[i].id : i \in DOMAIN AVAILABLE_VOICES}

\* a ParsedSegment as analyzeText returns it
AppSegment(t, speaker, isNarrator, gender, emotion, sfx) ==
  [text |-> t, speaker |-> speaker, isNarrator |-> isNarrator, sfx |-> sfx,
   speechDuration |-> 0, gender |-> gender, emotion |-> emotion,
   assignedVoiceId |-> ""]

\* a SceneContext, as far as the component reads it
Scene(narrativePerspective, protagonistName) ==
  [narrativePerspective |-> narrativePerspective, protagonistName |-> protagonistName]

\* The JSON documents the Text Analysis Service answers with: a third person
\* script whose two last segments merge into one task, a first person script
\* whose narrator speaks twice the same text and whose effects differ in
\* case only, a script holding a blank segment, and a document without scene.
ThirdPersonScript ==
  [segments |-> <<AppSegment(<<"a">>, "Narrator", TRUE, "neutral", "Tense", "t"),
                  AppSegment(<<"b">>, "Sarah", FALSE, "female", "Whispered", ""),
                  AppSegment(<<"b">>, "Sarah", FALSE, "female", "Whispered", "")>>,
   scene |-> <<Scene("third_person", "")>>]

FirstPersonScript ==
  [segments |-> <<AppSegment(<<"a">>, "Narrator", TRUE, "neutral", "Calm", ""),
                  AppSegment(<<"b">>, "Sarah", FALSE, "female", "Shouted", "C"),
                  AppSegment(<<" ">>, "Narrator", TRUE, "neutral", "Calm", ""),
                  AppSegment(<<"a">>, "Narrator", TRUE, "neutral", "Calm", "c")>>,
   scene |-> <<Scene("first_person", "Sarah")>>]

SceneLessScript ==
  [segments |-> <<AppSegment(<<"a">>, "Narrator", TRUE, "neutral", "Tense", "")>>,
   scene |-> <<>>]

Scripts == {ThirdPersonScript, FirstPersonScript, SceneLessScript}

\* what `await ai.models.generateContent(...)` can do: reject, answer without
\* text, answer with text that is no JSON, answer with a JSON document
Responses ==
  {[kind |-> k, json |-> SceneLessScript] : k \in {"error", "empty", "unparsable"}}
    \cup {[kind |-> "json", json |-> s] : s \in Scripts}

\* the characters of an effect keyword
SfxType(sfx) ==
  CASE sfx = "C" -> <<"C">>
    [] sfx = "c" -> <<"c">>
    [] sfx = "t" -> <<"t">>
    [] OTHER -> <<>>

(* ---------------------------- cleanSegments ---------------------------- *)
\* nextText.trim().startsWith(currText)
StartsWith(s, prefix) ==
  Len(prefix) <= Len(s) /\ SubSeq(s, 1, Len(prefix)) = prefix

\* nextText.indexOf(currText), 1-based; 0 stands for -1
IndexOf(s, sub) ==
  LET hits == {i \in 1..(Len(s) - Len(sub) + 1) : SubSeq(s, i, i + Len(sub) - 1) = sub}
  IN  IF hits = {} THEN 0 ELSE CHOOSE i \in hits : \A j \in hits : i <= j

\* the body of the for loop of cleanSegments, for the pair (i, i + 1)
RECURSIVE CleanLoop(_, _)
CleanLoop(cleaned, i) ==
  IF i > Len(cleaned) - 1 THEN cleaned
  ELSE LET current == cleaned[i]
           nxt == cleaned[i + 1]
           currText == Trim(current.text)
           overlapIndex == IndexOf(nxt.text, currText)
       IN  IF Len(currText) < 2 THEN CleanLoop(cleaned, i + 1)
           ELSE IF /\ StartsWith(Trim(nxt.text), currText)
                   /\ current.isNarrator # nxt.isNarrator
                   /\ overlapIndex # 0
             THEN CleanLoop(
                    [cleaned EXCEPT ![i + 1].text =
                       SubSeq(nxt.text, overlapIndex + Len(currText), Len(nxt.text))],
                    i + 1)
             ELSE CleanLoop(cleaned, i + 1)

\* cleaned.filter(s => s.text.trim().length > 0)
NonBlankSegment(seg) == ~IsBlank(seg.text)

cleanSegments(segs) == SelectSeq(CleanLoop(segs, 1), NonBlankSegment)


(* ------------------- handleAnalyze: the voice casting ------------------ *)
\* Array.from(new Set(xs)): the elements of xs in the order they first occur
RECURSIVE Unique(_, _)
Unique(xs, seen) ==
  IF xs = <<>> THEN seen
  ELSE Unique(Tail(xs),
              IF \E i \in DOMAIN seen : seen[i] = Head(xs) THEN seen
              ELSE Append(seen, Head(xs)))

IsNotNarratorName(name) == name # "Narrator"

\* result.segments.map(s => s.speaker).filter(s => s !== 'Narrator'), made unique
UniqueSpeakers(result) ==
  Unique(SelectSeq([i \in DOMAIN result.segments |-> result.segments[i].speaker],
                   IsNotNarratorName),
         <<>>)

\* array.find(test): the first index whose element passes, 0 when none does
First(hits) == IF hits = {} THEN 0 ELSE CHOOSE i \in hits : \A j \in hits : i <= j

\* result.segments.find(s => s.speaker === name)?.gender || 'neutral'
GenderOf(result, name) ==
  LET i == First({j \in DOMAIN result.segments : result.segments[j].speaker = name})
  IN  IF i = 0 \/ result.segments[i].gender = "" THEN "neutral"
      ELSE result.segments[i].gender

\* availableForGender, or AVAILABLE_VOICES when that is empty
VoicePool(gender, isThirdPerson) ==
  LET availableForGender ==
        {AVAILABLE_VOICES[i].id : i \in
           {j \in DOMAIN AVAILABLE_VOICES :
              /\ (gender = "neutral" \/ AVAILABLE_VOICES[j].gender = gender)
              /\ (isThirdPerson => AVAILABLE_VOICES[j].id # "Fenrir")}}
  IN  IF availableForGender # {} THEN availableForGender ELSE VoiceIds

\* The profiles uniqueSpeakers.map can build: Math.random picks any voice of
\* the speaker's pool.
CharacterCastings(result, isThirdPerson) ==
  LET names == UniqueSpeakers(result)
  IN  {[i \in DOMAIN names |->
          [name |-> names[i], gender |-> GenderOf(result, names[i]), voiceId |-> f[i]]] :
         f \in {g \in [DOMAIN names -> VoiceIds] :
                  \A i \in DOMAIN names :
                    g[i] \in VoicePool(GenderOf(result, names[i]), isThirdPerson)}}

\* the narrator voice chosen without the fallback to the profile 'I' or 'Me'
NarratorVoiceIdWithoutPronoun(profiles, scene, isThirdPerson) ==
  IF isThirdPerson THEN "Fenrir"
  ELSE LET byName == First({i \in DOMAIN profiles : profiles[i].name = scene.protagonistName})
       IN  IF byName # 0 THEN profiles[byName].voiceId
           ELSE "Puck"

\* let narratorVoiceId = 'Fenrir'; if (!isThirdPerson) { ... }
NarratorVoiceId(profiles, scene, isThirdPerson) ==
  IF isThirdPerson THEN "Fenrir"
  ELSE LET byName == First({i \in DOMAIN profiles : profiles[i].name = scene.protagonistName})
           byPronoun == First({i \in DOMAIN profiles : profiles[i].name \in {"I", "Me"}})
       IN  IF byName # 0 THEN profiles[byName].voiceId
           ELSE IF byPronoun # 0 THEN profiles[byPronoun].voiceId
           ELSE "Puck"

\* the profiles handleAnalyze can pass to setCharacterProfiles
Castings(result) ==
  LET scene == result.scene[1]
      isThirdPerson == scene.narrativePerspective = "third_person"
  IN  {Append(ps, [name |-> "Narrator", gender |-> "male",
                   voiceId |-> NarratorVoiceId(ps, scene, isThirdPerson)]) :
         ps \in CharacterCastings(result, isThirdPerson)}

(* --------------------- the task functions of the pools ----------------- *)
\* profiles.find(p => p.name === task.speaker)?.voiceId || 'Puck'
VoiceIdFor(profiles, speaker) ==
  LET i == First({j \in DOMAIN profiles : profiles[j].name = speaker})
  IN  IF i = 0 \/ profiles[i].voiceId = "" THEN "Puck" ELSE profiles[i].voiceId

\* prefetchAudio: let context = ""; if (task.isNarrator) { ... } else { ... }
PrefetchContext(task, scene) ==
  IF task.isNarrator
    THEN "Narration. Read clear, descriptive tone."
           \o (IF scene.narrativePerspective = "first_person"
                 THEN " You are the protagonist." ELSE "")
    ELSE "Character: " \o task.speaker \o ". Act out the text naturally based on context."

CommitContextWithoutPerspective(task, scene) ==
  IF task.isNarrator
    THEN "Narration. Read clear, descriptive tone."
    ELSE "Character: " \o task.speaker \o ". Act out the text naturally based on context."

\* handleGenerateAudio: let context = ""; if (task.isNarrator) { ... } else { ... }
CommitContext(task, scene) ==
  IF task.isNarrator
    THEN "Narration. Read clear, descriptive tone."
           \o (IF scene.narrativePerspective = "first_person"
                 THEN " You are the protagonist." ELSE "")
    ELSE "Character: " \o task.speaker \o ". Act out the text naturally based on context."

\* the function passed to add: the analysis result it was made for (counted
\* from 1), what it will request, for which speech task (0 for an effect),
\* and the promise its `await` is suspended on (0: none)
TaskFn(ph, kind, n, t, voiceId, context, sfx, task) ==
  [phase |-> ph, kind |-> kind, result |-> n, text |-> t, voiceId |-> voiceId,
   context |-> context, sfx |-> sfx, task |-> task, awaits |-> 0]

\* [...new Set(segs.filter(s => s.sfx).map(s => s.sfx))]
UniqueSFX(segs) ==
  Unique(SelectSeq([i \in DOMAIN segs |-> segs[i].sfx], LAMBDA s : s # ""), <<>>)

HasText(fn) == ~IsBlank(fn.text)

\* prefetchAudio: one () => generateSpeech(...) per task whose text is not blank
PrefetchSpeechFns(n, tasks, scene, profiles) ==
  SelectSeq([i \in DOMAIN tasks |->
               TaskFn("prefetch", "tts", n, tasks[i].textToSpeak,
                      VoiceIdFor(profiles, tasks[i].speaker),
                      PrefetchContext(tasks[i], scene), "", i)],
            HasText)

\* handleGenerateAudio: one async () => { ... } per task
CommitSpeechFns(n, tasks, scene, profiles) ==
  [i \in DOMAIN tasks |->
     TaskFn("commit", "tts", n, tasks[i].textToSpeak,
            VoiceIdFor(profiles, tasks[i].speaker),
            CommitContext(tasks[i], scene), "", i)]

\* () => generateSFX(sfx), one per distinct keyword
SfxFns(ph, n, segs) ==
  LET uniqueSFX == UniqueSFX(segs)
  IN  [i \in DOMAIN uniqueSFX |-> TaskFn(ph, "sfx", n, <<>>, "", "", uniqueSFX[i], 0)]


(* ------------- the service module and the pools as one value ----------- *)
\* The maps of the service module and the fields of the two pools, as a
\* handler that makes several calls in a row sees and leaves them.
World ==
  [tts |-> ttsPromiseCache, sfxC |-> sfxCache, sfxP |-> sfxPending,
   promises |-> promises, active |-> active, queue |-> queue, jobs |-> jobs,
   admitted |-> admitted, info |-> jobInfo]

Install(w) ==
  /\ ttsPromiseCache' = w.tts
  /\ sfxCache' = w.sfxC
  /\ sfxPending' = w.sfxP
  /\ promises' = w.promises
  /\ active' = w.active
  /\ queue' = w.queue
  /\ jobs' = w.jobs
  /\ admitted' = w.admitted
  /\ jobInfo' = w.info

\* generateSpeech(text, voiceName, context) whose producer reaches its await:
\* the maps it leaves and the promise it returns
SpeechCall(w, t, voiceName, context) ==
  LET key == SpeechCacheKey(t, voiceName, context)
      p == Len(w.promises) + 1
  IN  IF w.tts[key] # 0
        THEN [world |-> w, promise |-> w.tts[key]]
        ELSE [world |-> [w EXCEPT !.promises = Append(@, [kind |-> "tts", key |-> key,
                                                          state |-> "pending"]),
                                  !.tts[key] = p],
              promise |-> p]

\* generateSFX(type) whose render reaches its await
SfxCall(w, type) ==
  LET key == SfxCacheKey(type)
      p == Len(w.promises) + 1
  IN  IF w.sfxC[key] # 0 THEN [world |-> w, promise |-> w.sfxC[key]]
      ELSE IF w.sfxP[key] # 0 THEN [world |-> w, promise |-> w.sfxP[key]]
      ELSE [world |-> [w EXCEPT !.promises = Append(@, [kind |-> "sfx", key |-> key,
                                                        state |-> "pending"]),
                                !.sfxP[key] = p],
            promise |-> p]

\* task(): the function of job t runs up to its await
StartTask(w, t) ==
  LET fn == w.info[t]
      call == IF fn.kind = "tts" THEN SpeechCall(w, fn.text, fn.voiceId, fn.context)
              ELSE SfxCall(w, SfxType(fn.sfx))
  IN  IF fn.kind = "tts" /\ fn.phase = "commit" /\ IsBlank(fn.text)
        THEN w   \* if (!task.textToSpeak.trim()) return;
        ELSE [call.world EXCEPT !.info[t].awaits = call.promise]

StartTasks(w, started) == IF started = <<>> THEN w ELSE StartTask(w, started[1])

\* the wrapper is pushed and next() is not called
QueueAddWithoutNext(w, pool, fn) ==
  [w EXCEPT !.queue[pool] = Append(@, Len(w.jobs) + 1),
            !.jobs = Append(@, NewJob(pool)),
            !.info = Append(@, fn)]

\* queue.add(fn): push the wrapper, next(), and run what next() started
QueueAdd(w, pool, fn) ==
  LET t == Len(w.jobs) + 1
      r == next(pool, w.active[pool], Append(w.queue[pool], t))
  IN  StartTasks([w EXCEPT !.active[pool] = r.active,
                           !.queue[pool] = r.queue,
                           !.jobs = StartWrappers(Append(w.jobs, NewJob(pool)), r.started),
                           !.admitted[pool] = @ \o r.started,
                           !.info = Append(@, fn)],
                 r.started)

\* fns.forEach(fn => queue.add(fn)) / fns.map(fn => queue.add(fn))
RECURSIVE AddAll(_, _, _)
AddAll(w, pool, fns) ==
  IF fns = <<>> THEN w ELSE AddAll(QueueAdd(w, pool, Head(fns)), pool, Tail(fns))

\* prefetchAudio(result, profiles)
prefetchAudio(w, n, result, profiles) ==
  LET tasks == createSpeechTasks(result.segments)
      afterSpeech == AddAll(w, "tts",
                            PrefetchSpeechFns(n, tasks, result.scene[1], profiles))
  IN  AddAll(afterSpeech, "sfx", SfxFns("prefetch", n, result.segments))

(* ----------------------- the synthesized clips ------------------------- *)
\* samples the Speech Synthesis Service returns per spoken character
SamplesPerChar == 12000

RECURSIVE SpokenChars(_)
SpokenChars(t) ==
  IF t = <<>> THEN 0 ELSE (IF IsSpace(Head(t)) THEN 0 ELSE 1) + SpokenChars(Tail(t))

\* rawAudio.length of the clip synthesized for a text
ClipLength(t) == SamplesPerChar * SpokenChars(t)

\* task.indices.reduce((acc, idx) => acc + updatedSegments[idx].text.length, 0)
RECURSIVE TotalChars(_, _)
TotalChars(segs, indices) ==
  IF indices = <<>> THEN 0
  ELSE Len(segs[Head(indices)].text) + TotalChars(segs, Tail(indices))

InTask(task, idx) == \E i \in DOMAIN task.indices : task.indices[i] = idx

\* the segments of a task given half of their share of the clip's duration
AssignSegmentsHalfShare(segs, task, voiceId, rawAudio) ==
  LET totalChars == TotalChars(segs, task.indices)
  IN  [idx \in DOMAIN segs |->
         IF InTask(task, idx)
           THEN [segs[idx] EXCEPT !.assignedVoiceId = voiceId,
                                  !.speechDuration =
                                     (rawAudio * Len(segs[idx].text)) \div (2 * totalChars)]
           ELSE segs[idx]]

\* task.indices.forEach((idx, i) => { seg.assignedVoiceId = ...; seg.speechDuration = ... })
AssignSegments(segs, task, voiceId, rawAudio) ==
  LET totalChars == TotalChars(segs, task.indices)
  IN  [idx \in DOMAIN segs |->
         IF InTask(task, idx)
           THEN [segs[idx] EXCEPT !.assignedVoiceId = voiceId,
                                  !.speechDuration =
                                     (rawAudio * Len(segs[idx].text)) \div totalChars]
           ELSE segs[idx]]

\* every segment of the task is given the clip
AssignBuffersToAll(bufs, task, rawAudio) ==
  [idx \in DOMAIN bufs |-> IF InTask(task, idx) THEN rawAudio ELSE bufs[idx]]

\* audioBufferArray[idx] = i === 0 ? rawAudio : null
AssignBuffers(bufs, task, rawAudio) ==
  [idx \in DOMAIN bufs |->
     IF idx = task.indices[1] THEN rawAudio
     ELSE IF InTask(task, idx) THEN NullBuffer
     ELSE bufs[idx]]


(* ------------------------ AppSpec: the component ----------------------- *)
AppTasks ==
  UNION {LET tasks == createSpeechTasks(cleanSegments(s.segments))
         IN  {tasks[i] : i \in DOMAIN tasks} : s \in Scripts}

AppScenes == UNION {{s.scene[i] : i \in DOMAIN s.scene} : s \in Scripts}

\* every key the component can pass to generateSpeech
AppSpeechKeys ==
  {SpeechCacheKey(task.textToSpeak, v, c) :
     task \in AppTasks, v \in VoiceIds,
     c \in UNION {{PrefetchContext(t, sc), CommitContext(t, sc)} :
                    t \in AppTasks, sc \in AppScenes}}

AppSfxKeys == {SfxCacheKey(SfxType(sfx)) : sfx \in {"C", "c", "t"}}

\* The pools as the component builds them, and pools of one slot each, which
\* the tasks of one script fill.
AppConcurrencies ==
  {[p \in Pools |-> IF p = "tts" THEN TtsConcurrency ELSE SfxConcurrency],
   [p \in Pools |-> 1]}

AppInit ==
  /\ ttsVariant \in TtsVariants
  /\ ttsPromiseCache = [k \in AppSpeechKeys |-> 0]
  /\ sfxCache = [k \in AppSfxKeys |-> 0]
  /\ sfxPending = [k \in AppSfxKeys |-> 0]
  /\ promises = <<>>
  /\ returned = NoReturn
  /\ concurrency \in AppConcurrencies
  /\ active = [p \in Pools |-> 0]
  /\ queue = [p \in Pools |-> <<>>]
  /\ jobs = <<>>
  /\ admitted = [p \in Pools |-> <<>>]
  /\ PureIdle
  /\ AppIdle
  /\ TransportIdle
  /\ FnIdle

PromiseAnyResolves(js, tasks) == \E t \in tasks : js[t].delivered = "result"

\* Promise.all over the promises add returned resolves: each was resolved
PromiseAllResolves(js, tasks) == \A t \in tasks : js[t].delivered = "result"

\* Promise.all rejects: one of them was rejected
PromiseAllRejects(js, tasks) == \E t \in tasks : js[t].delivered = "error"

\* A promise reaction is waiting to run: a task function whose awaited promise
\* has settled (or that returned at once), the continuation of handleAnalyze
\* after a cached analysis, or that of handleGenerateAudio after its
\* Promise.all settled. The event loop runs these before any other event.
MicrotaskPending ==
  \/ \E t \in DOMAIN jobs :
       /\ jobs[t].state = "running"
       /\ jobInfo[t].awaits # 0 => promises[jobInfo[t].awaits].state # "pending"
  \/ analysis.state = "awaiting" /\ ~analysis.requested
  \/ /\ run.pc = "awaiting"
     /\ PromiseAllResolves(jobs, run.jobs) \/ PromiseAllRejects(jobs, run.jobs)

\* the user can still press Analyze
CanAnalyze == calls.handleAnalyze - calls.blank < MaxAnalyses \/ calls.blank < MaxBlankClicks

\* what no handler of the component writes
appFrame == <<ttsVariant, returned, concurrency, phase, transportVars, fnVars>>

worldVars ==
  <<ttsPromiseCache, sfxCache, sfxPending, promises, active, queue, jobs, admitted,
    jobInfo>>

\* onChange of the textarea, which takes input while the status is idle or error
TypeText ==
  /\ ~MicrotaskPending
  /\ CanAnalyze
  /\ status \in {"idle", "error"}
  /\ \E t \in Texts : t # sourceText /\ sourceText' = t
  /\ UNCHANGED <<status, parsedData, characterProfiles, audioTracks, analysisCache, cachedResult,
                 analysis, run, calls, worldVars, appFrame, segments, speechTasks,
                 voiceBuffers, timing, sfxTrack>>

\* handleAnalyze, up to `await analyzeText(text)`; analyzeText runs up to its
\* return of the cached copy or its `await ai.models.generateContent(...)`.
\* The button is disabled unless the status is idle or error.
HandleAnalyzeWithin(limit) ==
  /\ ~MicrotaskPending
  /\ status \in {"idle", "error"}
  /\ IF IsBlank(sourceText)
       THEN calls.blank < MaxBlankClicks
       ELSE calls.handleAnalyze - calls.blank < limit
  /\ IF IsBlank(sourceText)
       THEN /\ calls' = [calls EXCEPT !.handleAnalyze = @ + 1, !.blank = @ + 1]
            /\ UNCHANGED <<status, parsedData, audioTracks, analysis>>
       ELSE LET key == AnalysisCacheKey(sourceText)
                hit == analysisCache[key] # <<>>
            IN  /\ status' = "analyzing"
                /\ parsedData' = <<>>
                /\ audioTracks' = <<>>
                /\ analysis' = [state |-> "awaiting", key |-> key, requested |-> ~hit]
                /\ calls' = [calls EXCEPT !.handleAnalyze = @ + 1,
                                          !.generateContent = @ + (IF hit THEN 0 ELSE 1)]
  /\ UNCHANGED <<sourceText, characterProfiles, analysisCache, cachedResult, run, worldVars, appFrame,
                 segments, speechTasks, voiceBuffers, timing, sfxTrack>>

HandleAnalyze == HandleAnalyzeWithin(MaxAnalyses)

\* catch (err) { setStatus('error') }
AnalysisFails ==
  /\ status' = "error"
  /\ UNCHANGED <<parsedData, characterProfiles, calls, worldVars>>

\* handleAnalyze after `await analyzeText(text)` gave a result
AnalysisSucceeds(result) ==
  /\ parsedData' = <<result>>
  /\ IF result.scene = <<>>
       THEN \* result.scene.narrativePerspective throws: catch (err)
            /\ status' = "error"
            /\ UNCHANGED <<characterProfiles, calls, worldVars>>
       ELSE \E profiles \in Castings(result) :
              /\ characterProfiles' = profiles
              /\ status' = "reviewing"
              /\ calls' = [calls EXCEPT !.prefetchAudio = @ + 1]
              /\ Install(prefetchAudio(World, calls.prefetchAudio + 1, result, profiles))

\* analyzeText settles and handleAnalyze resumes
AnalyzeTextReturns ==
  /\ analysis.state = "awaiting"
  /\ analysis.requested => ~MicrotaskPending
  /\ analysis' = NoAnalysis
  /\ IF ~analysis.requested
       THEN \* return JSON.parse(JSON.stringify(analysisCache.get(cacheKey)))
            /\ AnalysisSucceeds(analysisCache[analysis.key][1])
            /\ UNCHANGED <<analysisCache, cachedResult>>
       ELSE \E response \in Responses :
              IF response.kind = "json"
                THEN LET result == [response.json EXCEPT !.segments = cleanSegments(@)]
                     IN  \* analysisCache.set(cacheKey, result); return result:
                         \* the map holds the object the caller is given
                         /\ analysisCache' = [analysisCache EXCEPT ![analysis.key] = <<result>>]
                         /\ cachedResult' =
                              [cachedResult EXCEPT ![analysis.key] =
                                 IF result.scene = <<>> THEN 0 ELSE calls.prefetchAudio + 1]
                         /\ AnalysisSucceeds(result)
                ELSE /\ AnalysisFails
                     /\ UNCHANGED <<analysisCache, cachedResult>>
  /\ UNCHANGED <<sourceText, audioTracks, run, appFrame, segments, speechTasks,
                 voiceBuffers, timing, sfxTrack>>

\* the button is rendered again once a generation run has failed
GenerateShownAfterFailure == status = "reviewing" \/ run.pc = "failed"

\* {status === 'reviewing' && (<button onClick={handleGenerateAudio} ...>)}
GenerateShown == status = "reviewing"

\* handleGenerateAudio, up to `await Promise.all([sfxJob, ttsJob])`. The
\* button exists only while the status is reviewing.
HandleGenerateAudio ==
  /\ ~MicrotaskPending
  /\ GenerateShown
  /\ parsedData # <<>>
  /\ LET data == parsedData[1]
         tasks == createSpeechTasks(data.segments)
         afterSfx == AddAll(World, "sfx",
                            SfxFns("commit", calls.prefetchAudio, data.segments))
         afterSpeech == AddAll(afterSfx, "tts",
                               CommitSpeechFns(calls.prefetchAudio, tasks, data.scene[1],
                                               characterProfiles))
     IN  /\ status' = "generating_speech"
         /\ segments' = data.segments
         /\ voiceBuffers' = [i \in DOMAIN data.segments |-> NullBuffer]
         /\ speechTasks' = tasks
         /\ Install(afterSpeech)
         /\ run' = [pc |-> "awaiting", jobs |-> (Len(jobs) + 1)..Len(afterSpeech.jobs),
                    awaits |-> {}, mixes |-> 0]
  /\ UNCHANGED <<sourceText, parsedData, characterProfiles, audioTracks, analysisCache, cachedResult,
                 analysis, calls, appFrame, timing, sfxTrack>>

\* parsedData is the result of analysis n: the object whose segments the
\* handleGenerateAudio call of that analysis writes to
HoldsResult(n) ==
  /\ parsedData # <<>>
  /\ parsedData[1].scene # <<>>
  /\ calls.prefetchAudio = n

\* the analysis result after the task function fn wrote to the segments of
\* its task
WrittenTo(result, fn, rawAudio) ==
  [result EXCEPT !.segments =
     AssignSegments(@, createSpeechTasks(result.segments)[fn.task], fn.voiceId, rawAudio)]

SettledSwallowingError(job, ok) ==
  [job EXCEPT !.state = "resolved", !.delivered = "result", !.releases = @ + 1]

\* resolve(result) / reject(e) of the wrapper of a task
Settled(job, ok) ==
  [job EXCEPT !.state = IF ok THEN "resolved" ELSE "rejected",
              !.delivered = IF ok THEN "result" ELSE "error",
              !.releases = @ + 1]

\* The promise a task function awaits has settled (or the function returned at
\* once): the function runs to its end, the wrapper delivers the outcome and
\* its finally block starts the next queued wrapper.
JobResumes(t) ==
  /\ t \in DOMAIN jobs
  /\ jobs[t].state = "running"
  /\ jobInfo[t].awaits # 0 => promises[jobInfo[t].awaits].state # "pending"
  /\ LET fn == jobInfo[t]
         pool == jobs[t].pool
         ok == fn.awaits = 0 \/ promises[fn.awaits].state = "fulfilled"
         r == Finally(pool, active[pool], queue[pool])
         rawAudio == ClipLength(fn.text)
     IN  /\ Install(StartTasks(
                      [World EXCEPT !.active[pool] = r.active,
                                    !.queue[pool] = r.queue,
                                    !.jobs = StartWrappers(
                                               [jobs EXCEPT ![t] = Settled(@, ok)], r.started),
                                    !.admitted[pool] = @ \o r.started],
                      r.started))
         /\ IF ok /\ fn.phase = "commit" /\ fn.kind = "tts" /\ fn.awaits # 0
              THEN \* updatedSegments = [...parsedData.segments] copies the array,
                   \* not the segments: the writes land in the objects the
                   \* analysis result holds, and in the analysis cache where
                   \* it holds that result
                   /\ IF t \in run.jobs
                        THEN LET assigned == AssignSegments(segments, speechTasks[fn.task],
                                                            fn.voiceId, rawAudio)
                             IN  /\ segments' = assigned
                                 /\ voiceBuffers' = AssignBuffers(
                                                      voiceBuffers, speechTasks[fn.task],
                                                      rawAudio)
                                 /\ parsedData' =
                                      IF HoldsResult(fn.result)
                                        THEN <<[parsedData[1] EXCEPT !.segments = assigned]>>
                                        ELSE parsedData
                        ELSE UNCHANGED <<segments, voiceBuffers, parsedData>>
                   /\ analysisCache' =
                        [k \in DOMAIN analysisCache |->
                           IF cachedResult[k] = fn.result
                             THEN <<WrittenTo(analysisCache[k][1], fn, rawAudio)>>
                             ELSE analysisCache[k]]
              ELSE UNCHANGED <<segments, voiceBuffers, parsedData, analysisCache>>
  /\ UNCHANGED <<sourceText, status, characterProfiles, audioTracks, cachedResult,
                 analysis, run, calls, appFrame, speechTasks, timing, sfxTrack>>

ResumeJob == \E t \in DOMAIN jobs : JobResumes(t)

\* `await Promise.all([sfxJob, ttsJob])` resolves: setStatus('mixing') and
\* generateTrackBuffers runs up to its `await ctx.startRendering()`
JoinResolves ==
  /\ run.pc = "awaiting"
  /\ PromiseAllResolves(jobs, run.jobs)
  /\ status' = "mixing"
  /\ calls' = [calls EXCEPT !.generateTrackBuffers = @ + 1]
  /\ timing' = calculateTimings(voiceBuffers, segments)
  /\ run' = [run EXCEPT !.pc = "reverb", !.mixes = @ + 1]
  /\ UNCHANGED <<sourceText, parsedData, characterProfiles, audioTracks, analysisCache, cachedResult,
                 analysis, worldVars, appFrame, segments, speechTasks, voiceBuffers,
                 sfxTrack>>

\* `await Promise.all([sfxJob, ttsJob])` rejects: catch (err) { setStatus('error') }
JoinRejects ==
  /\ run.pc = "awaiting"
  /\ PromiseAllRejects(jobs, run.jobs)
  /\ status' = "error"
  /\ run' = [run EXCEPT !.pc = "failed"]
  /\ UNCHANGED <<sourceText, parsedData, characterProfiles, audioTracks, analysisCache, cachedResult,
                 analysis, calls, worldVars, appFrame, segments, speechTasks,
                 voiceBuffers, timing, sfxTrack>>

\* the generateSFX(seg.sfx) calls of renderSFXTrack, segment by segment
RECURSIVE RenderCalls(_, _, _, _)
RenderCalls(w, segs, i, awaited) ==
  IF i > Len(segs) THEN [world |-> w, awaits |-> awaited]
  ELSE IF HasSfx(segs[i])
    THEN LET call == SfxCall(w, SfxType(segs[i].sfx))
         IN  RenderCalls(call.world, segs, i + 1, awaited \cup {call.promise})
    ELSE RenderCalls(w, segs, i + 1, awaited)

\* The reverb render of generateTrackBuffers settles; on success the three
\* track renders start, renderSFXTrack among them.
ReverbRendered(ok) ==
  /\ run.pc = "reverb"
  /\ IF ok
       THEN LET calls_ == RenderCalls(World, segments, 1, {})
            IN  /\ Install(calls_.world)
                /\ sfxTrack' = renderSFXTrack(timing.totalDuration, segments,
                                              timing.startTimes)
                /\ run' = [run EXCEPT !.pc = "rendering", !.awaits = calls_.awaits]
                /\ UNCHANGED status
       ELSE /\ status' = "error"
            /\ run' = [run EXCEPT !.pc = "failed"]
            /\ UNCHANGED <<worldVars, sfxTrack>>
  /\ UNCHANGED <<sourceText, parsedData, characterProfiles, audioTracks, analysisCache, cachedResult,
                 analysis, calls, appFrame, segments, speechTasks, voiceBuffers, timing>>

\* The three track renders settle: setAudioTracks(tracks); setStatus('playing'),
\* or catch (err) { setStatus('error') }
TracksRendered(ok) ==
  /\ run.pc = "rendering"
  /\ \A p \in run.awaits : promises[p].state # "pending"
  /\ IF ok /\ \A p \in run.awaits : promises[p].state = "fulfilled"
       THEN /\ audioTracks' = <<[duration |-> timing.totalDuration]>>
            /\ status' = "playing"
            /\ run' = [run EXCEPT !.pc = "done"]
       ELSE /\ status' = "error"
            /\ run' = [run EXCEPT !.pc = "failed"]
            /\ UNCHANGED audioTracks
  /\ UNCHANGED <<sourceText, parsedData, characterProfiles, analysisCache, cachedResult, analysis,
                 calls, worldVars, appFrame, segments, speechTasks, voiceBuffers, timing,
                 sfxTrack>>

MixRenders == ~MicrotaskPending /\ \E ok \in BOOLEAN : ReverbRendered(ok) \/ TracksRendered(ok)

\* the Speech Synthesis Service answers a request
AppSpeechReturns == ~MicrotaskPending /\ \E p \in DOMAIN promises, ok \in BOOLEAN : SpeechServiceReturn(p, ok)

\* a render of generateSFX settles
AppSfxReturns == ~MicrotaskPending /\ \E p \in DOMAIN promises, ok \in BOOLEAN : SfxRenderReturn(p, ok)

AppNext ==
  \/ TypeText
  \/ HandleAnalyze
  \/ AnalyzeTextReturns
  \/ HandleGenerateAudio
  \/ ResumeJob
  \/ JoinResolves
  \/ JoinRejects
  \/ MixRenders
  \/ AppSpeechReturns
  \/ AppSfxReturns

AppSpec == AppInit /\ [][AppNext]_vars


(* ------------------------ claims on the component ---------------------- *)
\* the run has begun to compose
Composing == status = "mixing" \/ run.pc \in {"reverb", "rendering", "done"}

\* the task function of job t has run to its end without an error
CompletedOk(t) ==
  /\ jobs[t].state = "resolved"
  /\ jobs[t].delivered = "result"
  /\ jobInfo[t].awaits # 0 => promises[jobInfo[t].awaits].state = "fulfilled"

\* C13: join barrier. Whenever composition has begun (status 'mixing',
\* generateTrackBuffers called), every speech task and every effect task the
\* run submitted has completed successfully, in whatever order the service
\* calls of the two pools settled.
C13_JoinBarrier ==
  Composing => \A t \in run.jobs : CompletedOk(t)

\* Composition has begun for a run of four tasks on pools of one slot each,
\* after a prefetch request had failed and the run asked again.
C13_Witness ==
  /\ status = "mixing"
  /\ Cardinality(run.jobs) >= 3
  /\ \A pool \in Pools : concurrency[pool] = 1
  /\ \E t \in run.jobs : jobInfo[t].kind = "sfx"
  /\ \E t \in run.jobs : jobInfo[t].kind = "tts"
  /\ \E p \in DOMAIN promises : promises[p].state = "rejected"

\* a request a task of the run waits for has failed
RequestFailed ==
  \E t \in run.jobs :
    jobInfo[t].awaits # 0 /\ promises[jobInfo[t].awaits].state = "rejected"

\* C14: a generation failure aborts the mix. Once a speech or effect request
\* of the run has failed, the run never composes (no generateTrackBuffers
\* call, status never 'mixing' or 'playing'), the audio tracks stay null, and
\* as soon as the pending promise reactions have run the run has ended in
\* its catch block, which sets the status 'error'.
C14_FailureAbortsMix ==
  RequestFailed =>
    /\ ~Composing
    /\ status \notin {"mixing", "playing"}
    /\ audioTracks = <<>>
    /\ run.mixes = 0
    /\ ~MicrotaskPending => (run.pc = "failed" /\ status # "generating_speech")

\* A run ended in 'error' because one request failed although every other
\* task of the run completed.
C14_Witness ==
  /\ RequestFailed
  /\ run.pc = "failed"
  /\ status = "error"
  /\ Cardinality({t \in run.jobs : jobs[t].delivered = "error"}) = 1
  /\ Cardinality({t \in run.jobs : CompletedOk(t)}) >= 2

\* C15: an analysis that fails shows no partial script. The step in which
\* handleAnalyze ends in 'error' leaves the parsed script null and the
\* character profiles as they were, and submits nothing to the pools.
C15_AnalysisFailureClean ==
  [][(analysis.state = "awaiting" /\ status' = "error") =>
       /\ parsedData' = <<>>
       /\ characterProfiles' = characterProfiles
       /\ calls'.prefetchAudio = calls.prefetchAudio
       /\ jobs' = jobs]_vars

WhiteSpaceOnly(t) == \A i \in DOMAIN t : IsSpace(t[i])

\* C16: blank input is rejected. A handleAnalyze call on a text that is
\* empty or white space only changes neither status, parsed script, audio
\* tracks nor character profiles, and requests nothing from the analysis
\* service, the analysis cache, the speech and effect services or the pools.
C16_BlankInputRejected ==
  [][(calls'.handleAnalyze # calls.handleAnalyze /\ WhiteSpaceOnly(sourceText)) =>
       /\ UNCHANGED <<status, parsedData, audioTracks, characterProfiles>>
       /\ UNCHANGED <<analysis, analysisCache, worldVars>>
       /\ calls'.generateContent = calls.generateContent
       /\ calls'.prefetchAudio = calls.prefetchAudio]_vars

\* Analyze was pressed on a text of one space after a generation run had
\* failed: script and profiles were there to lose.
C16_Witness ==
  /\ sourceText = <<" ">>
  /\ calls.blank = MaxBlankClicks
  /\ calls.handleAnalyze - calls.blank = MaxAnalyses
  /\ status = "error"
  /\ parsedData # <<>>
  /\ characterProfiles # <<>>

\* the key generateSpeech builds for a task function
KeyOf(fn) == SpeechCacheKey(fn.text, fn.voiceId, fn.context)

\* prefetch and commit submit the same key for every speech task
SameKeysInBothPhases ==
  \A c \in DOMAIN jobInfo :
    (jobInfo[c].phase = "commit" /\ jobInfo[c].kind = "tts" /\ ~WhiteSpaceOnly(jobInfo[c].text)) =>
      \E p \in DOMAIN jobInfo :
        /\ jobInfo[p].phase = "prefetch"
        /\ jobInfo[p].kind = "tts"
        /\ jobInfo[p].result = jobInfo[c].result
        /\ jobInfo[p].task = jobInfo[c].task
        /\ p < c
        /\ KeyOf(jobInfo[p]) = KeyOf(jobInfo[c])

NoRequestFailed == \A p \in DOMAIN promises : promises[p].state # "rejected"

\* C17: cross-phase deduplication. The commit phase submits, for every speech
\* task, the key the prefetch phase submitted for it; and while no request
\* has failed the producer has been invoked at most once for each speech key
\* and at most once for each effect keyword, over prefetch, commit and the
\* rendering of the effect track.
C17_CrossPhaseDedup ==
  /\ SameKeysInBothPhases
  /\ NoRequestFailed =>
       /\ \A k \in AppSpeechKeys : ProducerCalls("tts", k) <= 1
       /\ \A k \in AppSfxKeys : ProducerCalls("sfx", k) <= 1

\* A first person script was prefetched, committed and mixed without a
\* failure: five prefetch and five commit tasks, two of whose speech tasks
\* share a key and whose two effect keywords differ in case only, were served
\* by three producer calls.
C17_Witness ==
  /\ status = "playing"
  /\ NoRequestFailed
  /\ parsedData[1].scene[1].narrativePerspective = "first_person"
  /\ Len(jobs) = 10
  /\ Len(promises) = 3


(***************************************************************************)
(* The playback transport of App.tsx: togglePlayback, the speed effect,    *)
(* stopAllSources and the progress poll.                                   *)
(*                                                                         *)
(* Times are in eighths of a second and speeds in quarters, so that every  *)
(* product and quotient the code computes on the values below is exact.    *)
(***************************************************************************)

\* the audio clock is observed once a second
ClockStep == 8

\* the horizon of the audio clock
MaxClock == 48

\* togglePlayback calls that may be suspended on ctx.resume() at once
MaxPendingToggles == 2

\* the speed 1.0, in quarters
SpeedUnit == 4

\* the positions of the speed slider that are tried: 0, 1.0 and 2.0
SliderValues == {0, 4, 8}

\* Math.max(0.25, parseFloat(e.target.value))
SliderSpeed(v) == Max(1, v)

\* the AudioTracks generateTrackBuffers returns: the total duration and the
\* durations of the looped score and ambience buffers
Tracks(duration, score, ambience) ==
  [duration |-> duration, score |-> score, ambience |-> ambience]

\* a mix of three seconds with the one-second silent score of a neutral scene
\* and an ambience loop as long as the mix (Math.min(duration, 32))
TransportTracks == {Tracks(24, 8, 24)}

\* setProgress takes a percentage; the model keeps it times the duration
Percent(x, tracks) == x * tracks.duration

\* an AudioBufferSourceNode that has been started
Node(offset, rate, loop) == [offset |-> offset, rate |-> rate, loop |-> loop]

\* the React state and the refs of the transport
Transport ==
  [isPlaying |-> isPlaying, progress |-> progress, playbackSpeed |-> playbackSpeed,
   startTimeRef |-> startTimeRef, pauseTimeRef |-> pauseTimeRef,
   previousSpeedRef |-> previousSpeedRef, sourcesRef |-> sourcesRef,
   orphans |-> orphans, audioContextRef |-> audioContextRef]

InstallTransport(t) ==
  /\ isPlaying' = t.isPlaying
  /\ progress' = t.progress
  /\ playbackSpeed' = t.playbackSpeed
  /\ startTimeRef' = t.startTimeRef
  /\ pauseTimeRef' = t.pauseTimeRef
  /\ previousSpeedRef' = t.previousSpeedRef
  /\ sourcesRef' = t.sourcesRef
  /\ orphans' = t.orphans
  /\ audioContextRef' = t.audioContextRef

\* (ctx.currentTime - startTimeRef.current) * playbackSpeed
ElapsedAt(now, start, speed) == ((now - start) * speed) \div SpeedUnit

\* stopAllSources: every node sourcesRef holds is stopped and its entry nulled
stopAllSources(t) == [t EXCEPT !.sourcesRef = [k \in TrackKeys |-> NoNode]]

\* pauseTimeRef.current % audioTracks.duration, ignoring the wrap
StartOffsetUnwrapped(pauseTime, tracks) == pauseTime

\* const offset = pauseTimeRef.current % audioTracks.duration
StartOffset(pauseTime, tracks) == pauseTime % tracks.duration

\* the four sources togglePlayback starts at an offset
StartSources(offset, rate, tracks) ==
  [k \in TrackKeys |->
     CASE k = "dialogue" -> Node(offset, rate, FALSE)
       [] k = "score"    -> Node(offset % tracks.score, rate, TRUE)
       [] k = "ambience" -> Node(offset % tracks.ambience, rate, TRUE)
       [] k = "sfx"      -> Node(offset, rate, FALSE)]

\* The body of togglePlayback after `await ctx.resume()`, with the isPlaying
\* and playbackSpeed its closure captured.
ToggleBody(t, closure, now, tracks) ==
  IF closure.isPlaying
    THEN [stopAllSources(t) EXCEPT
            !.audioContextRef = TRUE,
            !.pauseTimeRef = ElapsedAt(now, t.startTimeRef, closure.playbackSpeed),
            !.isPlaying = FALSE]
    ELSE LET offset == StartOffset(t.pauseTimeRef, tracks)
         IN  [t EXCEPT
                !.audioContextRef = TRUE,
                !.startTimeRef = now - ((offset * SpeedUnit) \div closure.playbackSpeed),
                !.orphans = @ \cup {[track |-> k, node |-> t.sourcesRef[k]] :
                                      k \in {j \in TrackKeys : t.sourcesRef[j] # NoNode}},
                !.sourcesRef = StartSources(offset, closure.playbackSpeed, tracks),
                !.isPlaying = TRUE]

\* the effect on [playbackSpeed, isPlaying], anchoring on the new speed alone
SpeedEffectWithoutPrevious(t, now) ==
  [t EXCEPT
     !.sourcesRef = [k \in TrackKeys |->
                       IF @[k] = NoNode THEN NoNode
                       ELSE [@[k] EXCEPT !.rate = t.playbackSpeed]],
     !.previousSpeedRef = t.playbackSpeed]

\* The effect on [playbackSpeed, isPlaying]: re-anchor the start time, set the
\* rate of every source held, remember the speed.
SpeedEffect(t, now) ==
  LET currentElapsed == ElapsedAt(now, t.startTimeRef, t.previousSpeedRef)
      anchored ==
        IF t.isPlaying /\ t.audioContextRef
          THEN [t EXCEPT !.startTimeRef =
                           now - ((currentElapsed * SpeedUnit) \div t.playbackSpeed)]
          ELSE t
  IN  [anchored EXCEPT
         !.sourcesRef = [k \in TrackKeys |->
                           IF @[k] = NoNode THEN NoNode
                           ELSE [@[k] EXCEPT !.rate = t.playbackSpeed]],
         !.previousSpeedRef = t.playbackSpeed]

\* updateProgress that leaves the resume offset alone when the end is reached
updateProgressKeepingOffset(t, now, tracks) ==
  IF t.isPlaying /\ t.audioContextRef
    THEN LET elapsed == ElapsedAt(now, t.startTimeRef, t.playbackSpeed)
         IN  IF elapsed >= tracks.duration
               THEN [stopAllSources(t) EXCEPT !.isPlaying = FALSE,
                                              !.progress = Percent(100, tracks)]
               ELSE [t EXCEPT !.progress = Min(elapsed * 100, Percent(100, tracks))]
    ELSE t

\* updateProgress: at the end of the mix stop everything, otherwise report
\* the progress
updateProgress(t, now, tracks) ==
  IF t.isPlaying /\ t.audioContextRef
    THEN LET elapsed == ElapsedAt(now, t.startTimeRef, t.playbackSpeed)
         IN  IF elapsed >= tracks.duration
               THEN [stopAllSources(t) EXCEPT !.isPlaying = FALSE,
                                              !.pauseTimeRef = 0,
                                              !.progress = Percent(100, tracks)]
               ELSE [t EXCEPT !.progress = Min(elapsed * 100, Percent(100, tracks))]
    ELSE t

\* a poll and the render it causes: setIsPlaying(false) re-runs the speed effect
AfterPoll(t, now, tracks) ==
  LET polled == updateProgress(t, now, tracks)
  IN  IF polled.isPlaying # t.isPlaying THEN SpeedEffect(polled, now) ELSE polled

\* The render after a handler changed the state from old to new: both
\* effects depend on playbackSpeed and isPlaying, the speed effect comes
\* first, and the progress effect polls at once.
AfterRender(old, new, now, tracks) ==
  IF new.playbackSpeed # old.playbackSpeed \/ new.isPlaying # old.isPlaying
    THEN AfterPoll(SpeedEffect(new, now), now, tracks)
    ELSE new

\* the pending togglePlayback calls continue in the order they were made
RECURSIVE RunToggles(_, _, _, _)
RunToggles(t, pending, now, tracks) ==
  IF pending = <<>> THEN t
  ELSE RunToggles(ToggleBody(t, Head(pending), now, tracks), Tail(pending), now, tracks)

\* what the last step of the transport was, and whether updateProgress ran in it
Event(op, polled) == [op |-> op, polled |-> polled]

transportFrame == <<cacheVars, queueVars, pureVars, appVars, fnVars>>

\* The player once generateTrackBuffers has delivered its tracks; the context
\* is suspended until a gesture resumes it, or running already.
TransportInit ==
  /\ CacheIdle
  /\ QueueIdle
  /\ PureIdle
  /\ sourceText = DEFAULT_TEXT
  /\ status = "playing"
  /\ parsedData = <<>>
  /\ characterProfiles = <<>>
  /\ audioTracks \in {<<t>> : t \in TransportTracks}
  /\ analysisCache = [k \in AnalysisKeys |-> <<>>]
  /\ cachedResult = [k \in AnalysisKeys |-> 0]
  /\ analysis = NoAnalysis
  /\ jobInfo = <<>>
  /\ run = NoRun
  /\ calls = NoCalls
  /\ audioClock = 0
  /\ ctxState \in {"suspended", "running"}
  /\ audioContextRef = FALSE
  /\ isPlaying = FALSE
  /\ progress = 0
  /\ playbackSpeed = DefaultSpeed
  /\ startTimeRef = 0
  /\ pauseTimeRef = 0
  /\ previousSpeedRef = DefaultSpeed
  /\ sourcesRef = [k \in TrackKeys |-> NoNode]
  /\ orphans = {}
  /\ pendingToggles = <<>>
  /\ transportEvent = Event("none", FALSE)
  /\ FnIdle

\* the audio clock advances while the context runs
Tick ==
  /\ ctxState = "running"
  /\ audioClock < MaxClock
  /\ audioClock' = audioClock + ClockStep
  /\ transportEvent' = Event("tick", FALSE)
  /\ UNCHANGED <<ctxState, audioContextRef, isPlaying, progress, playbackSpeed,
                 startTimeRef, pauseTimeRef, previousSpeedRef, sourcesRef, orphans,
                 pendingToggles, transportFrame>>

\* A click on the play button. On a suspended context the call waits for
\* ctx.resume(); otherwise it runs to its end and React renders.
TogglePlayback ==
  /\ audioTracks # <<>>
  /\ LET closure == [isPlaying |-> isPlaying, playbackSpeed |-> playbackSpeed]
     IN  IF ctxState = "suspended"
           THEN /\ Len(pendingToggles) < MaxPendingToggles
                /\ pendingToggles' = Append(pendingToggles, closure)
                /\ transportEvent' = Event("await", FALSE)
                /\ UNCHANGED <<audioContextRef, isPlaying, progress, playbackSpeed,
                               startTimeRef, pauseTimeRef, previousSpeedRef, sourcesRef,
                               orphans>>
           ELSE LET body == ToggleBody(Transport, closure, audioClock, audioTracks[1])
                IN  /\ InstallTransport(AfterRender(Transport, body, audioClock,
                                                    audioTracks[1]))
                    /\ transportEvent' =
                         Event(IF isPlaying THEN "pause" ELSE "play", body.isPlaying)
                    /\ UNCHANGED pendingToggles
  /\ UNCHANGED <<audioClock, ctxState, transportFrame>>

\* ctx.resume() settles: the context runs and the waiting togglePlayback calls
\* continue one after the other, before React renders. (resume() rejects on a
\* closed context only, and nothing closes the context.)
ContextResumes ==
  /\ pendingToggles # <<>>
  /\ ctxState' = "running"
  /\ pendingToggles' = <<>>
  /\ LET body == RunToggles(Transport, pendingToggles, audioClock, audioTracks[1])
     IN  /\ InstallTransport(AfterRender(Transport, body, audioClock, audioTracks[1]))
         /\ transportEvent' =
              Event(IF body.isPlaying THEN "play" ELSE "pause",
                    body.isPlaying /\ body.isPlaying # isPlaying)
  /\ UNCHANGED <<audioClock, transportFrame>>

\* the speed slider moves
SetPlaybackSpeed(v) ==
  /\ audioTracks # <<>>
  /\ SliderSpeed(v) # playbackSpeed
  /\ LET new == [Transport EXCEPT !.playbackSpeed = SliderSpeed(v)]
     IN  /\ InstallTransport(AfterRender(Transport, new, audioClock, audioTracks[1]))
         /\ transportEvent' = Event("speed", isPlaying /\ audioContextRef)
  /\ UNCHANGED <<audioClock, ctxState, pendingToggles, transportFrame>>

\* an animation frame runs updateProgress
Poll ==
  /\ isPlaying
  /\ audioTracks # <<>>
  /\ audioContextRef
  /\ InstallTransport(AfterPoll(Transport, audioClock, audioTracks[1]))
  /\ transportEvent' = Event("poll", TRUE)
  /\ UNCHANGED <<audioClock, ctxState, pendingToggles, transportFrame>>

MoveSlider == \E v \in SliderValues : SetPlaybackSpeed(v)

TransportNext ==
  \/ Tick
  \/ TogglePlayback
  \/ ContextResumes
  \/ MoveSlider
  \/ Poll

TransportSpec == TransportInit /\ [][TransportNext]_vars


\* the elapsed time the transport reports: (clock - anchor) * speed
Elapsed == ElapsedAt(audioClock, startTimeRef, playbackSpeed)

\* every quotient the transport computes is exact on the values modelled
ExactArithmetic ==
  /\ pauseTimeRef >= 0
  /\ pauseTimeRef % 2 = 0
  /\ isPlaying =>
       /\ startTimeRef <= audioClock
       /\ previousSpeedRef = playbackSpeed
       /\ ((audioClock - startTimeRef) * playbackSpeed) % (2 * SpeedUnit) = 0


\* the duration of the tracks being played
Duration == audioTracks[1].duration

\* sourcesRef holds no source
NoSourceHeld == \A k \in TrackKeys : sourcesRef[k] = NoNode

\* sourcesRef holds four sources started at an offset, the looped score and
\* ambience wrapped to their own loop length
HeldFrom(offset) ==
  /\ sourcesRef["dialogue"].offset = offset
  /\ sourcesRef["sfx"].offset = offset
  /\ sourcesRef["score"].offset = offset % audioTracks[1].score
  /\ sourcesRef["ambience"].offset = offset % audioTracks[1].ambience
  /\ \A k \in TrackKeys : sourcesRef[k] # NoNode

\* a pause stores the elapsed time as the resume offset and releases the four
\* sources the transport holds
PauseStoresElapsed ==
  transportEvent'.op = "pause" =>
    /\ pauseTimeRef' = Elapsed
    /\ NoSourceHeld'
    /\ ~isPlaying'

\* a play starts the four sources at the resume offset modulo the duration
PlayStartsAtOffset ==
  transportEvent'.op = "play" =>
    /\ HeldFrom(pauseTimeRef % Duration)'
    /\ isPlaying'

\* C18 as stated: a pause stores the elapsed time and releases the sources,
\* the next play starts them at that offset modulo the duration, and the
\* elapsed time right after resuming equals the elapsed time at the pause.
C18_ResumeAtPausedElapsed ==
  [][/\ PauseStoresElapsed
     /\ PlayStartsAtOffset
     /\ transportEvent'.op = "play" => Elapsed' = pauseTimeRef]_vars

\* C18: pause and resume. A pause stores the elapsed time ((clock - anchor) *
\* speed) as the resume offset and releases the four sources the transport
\* holds; the next play starts the four sources at that offset modulo the
\* total duration (score and ambience also modulo their loop length), and the
\* elapsed time right after resuming equals the elapsed time at the pause
\* modulo the total duration: the two differ when the pause came at or after
\* the end of the mix, before a poll had stopped the transport.
C18_ResumeAtWrappedElapsed ==
  [][/\ PauseStoresElapsed
     /\ PlayStartsAtOffset
     /\ transportEvent'.op = "play" => Elapsed' = pauseTimeRef % Duration]_vars

\* Playback resumed in the middle of the mix, at a speed other than 1.0 and
\* past the end of the score loop.
C18_Witness ==
  /\ transportEvent.op = "play"
  /\ isPlaying
  /\ pauseTimeRef > audioTracks[1].score
  /\ pauseTimeRef < Duration
  /\ Elapsed = pauseTimeRef
  /\ playbackSpeed # DefaultSpeed
  /\ HeldFrom(pauseTimeRef)


\* every source the transport holds plays at a rate
HeldAtRate(rate) == \A k \in TrackKeys : sourcesRef[k] # NoNode => sourcesRef[k].rate = rate

\* the transport holds its four sources
FourSourcesHeld == \A k \in TrackKeys : sourcesRef[k] # NoNode

\* C19: speed change continuity. A change of the playback speed while playing
\* leaves the elapsed time where it was (the anchor moves instead) and gives
\* the new rate to every source the transport holds; from then on the elapsed
\* time advances by the new speed per unit of audio-clock time. Because the
\* speed remembered for the next re-anchoring always equals the playback
\* speed while playing, and the four held sources always play at it, this
\* holds after any sequence of speed changes, pauses and resumes.
C19_SpeedChangeContinuity ==
  [][/\ (transportEvent'.op = "speed" /\ isPlaying /\ audioContextRef) =>
          /\ Elapsed' = Elapsed
          /\ playbackSpeed' # playbackSpeed
          /\ HeldAtRate(playbackSpeed)'
     /\ (transportEvent'.op = "tick" /\ isPlaying) =>
          /\ Elapsed' - Elapsed = (ClockStep * playbackSpeed) \div SpeedUnit
          /\ playbackSpeed' = playbackSpeed
     /\ isPlaying' =>
          /\ previousSpeedRef' = playbackSpeed'
          /\ FourSourcesHeld'
          /\ HeldAtRate(playbackSpeed)']_vars

\* The speed was changed in the middle of the mix, after an earlier pause and
\* resume at another speed; the four sources play on at the new rate.
C19_Witness ==
  /\ transportEvent.op = "speed"
  /\ isPlaying
  /\ FourSourcesHeld
  /\ HeldAtRate(playbackSpeed)
  /\ playbackSpeed # DefaultSpeed
  /\ Elapsed > pauseTimeRef
  /\ pauseTimeRef > 0
  /\ sourcesRef["dialogue"].offset = pauseTimeRef


\* the transport is stopped at the end of the mix: nothing held, resume offset
\* zero, progress 100
StoppedAtEnd ==
  /\ ~isPlaying
  /\ NoSourceHeld
  /\ pauseTimeRef = 0
  /\ progress = Percent(100, audioTracks[1])

\* C20: auto-stop at the end. Whenever updateProgress runs while playing: if
\* the elapsed time has reached the total duration the transport stops the
\* sources it holds, is stopped, has resume offset zero and reports progress
\* 100; otherwise it keeps playing and reports elapsed/duration as a
\* percentage within [0,100]. The stop at the end leaves the resume offset at
\* zero until the next play, which starts the four sources from offset 0.
C20_AutoStopAtEnd ==
  [][/\ transportEvent'.polled =>
          IF Elapsed' >= Duration
            THEN StoppedAtEnd'
            ELSE /\ isPlaying'
                 /\ progress' = Elapsed' * 100
                 /\ progress' >= 0
                 /\ progress' < Percent(100, audioTracks[1])
     /\ (~isPlaying' /\ progress' = Percent(100, audioTracks[1])) => pauseTimeRef' = 0
     /\ (transportEvent'.op = "play" /\ progress = Percent(100, audioTracks[1])) =>
          /\ HeldFrom(0)'
          /\ Elapsed' = 0]_vars

\* A poll found the elapsed time past the end of the mix and stopped the
\* transport.
C20_Witness ==
  /\ transportEvent = Event("poll", TRUE)
  /\ StoppedAtEnd
  /\ Elapsed > Duration



(***************************************************************************)
(* Two functions of the audio engine on their own: trimSilenceRaw and      *)
(* generateAdvancedScore.                                                  *)
(***************************************************************************)

\* A clip is given in blocks: each element stands for BlockSamples equal
\* PCM16 samples, so that the 50 ms floor of trimSilenceRaw is two blocks.
BlockSamples == 600

\* the longest clip examined, in blocks
MaxBlocks == 4

\* const threshold = 327
SilenceThreshold == 327

\* a silent sample, one just below the threshold, one just at it
SampleValues == {0, 326, -327}

\* Math.abs
Abs(x) == IF x < 0 THEN -x ELSE x

\* Math.abs(data[i]) < threshold
IsQuiet(x) == Abs(x) < SilenceThreshold

\* while (start < end && Math.abs(data[start]) < threshold) start++
RECURSIVE TrimStartIndex(_, _, _)
TrimStartIndex(data, start, end) ==
  IF start < end /\ IsQuiet(data[start + 1])
    THEN TrimStartIndex(data, start + 1, end)
    ELSE start

\* while (end > start && Math.abs(data[end - 1]) < threshold) end--
RECURSIVE TrimEndIndex(_, _, _)
TrimEndIndex(data, start, end) ==
  IF end > start /\ IsQuiet(data[end])
    THEN TrimEndIndex(data, start, end - 1)
    ELSE end

\* SAMPLE_RATE * 0.05
MinTrimmedSamples == SAMPLE_RATE \div 20

\* trimSilenceRaw that also drops the first sample it found loud
trimSilenceRawDroppingFirst(data) ==
  LET start == TrimStartIndex(data, 0, Len(data))
      end   == TrimEndIndex(data, start, Len(data))
  IN  IF (end - start) * BlockSamples < MinTrimmedSamples
        THEN data
        ELSE SubSeq(data, start + 2, end)

\* trimSilenceRaw: data.subarray(start, end), or data itself when less than
\* 50 ms would remain
trimSilenceRaw(data) ==
  LET start == TrimStartIndex(data, 0, Len(data))
      end   == TrimEndIndex(data, start, Len(data))
  IN  IF (end - start) * BlockSamples < MinTrimmedSamples
        THEN data
        ELSE SubSeq(data, start + 1, end)

\* an AudioBuffer: its length in sample frames and whether every sample is 0
AudioBuffer(length, silent) == [length |-> length, silent |-> silent]

\* createSilenceBuffer(duration), the duration in sample periods:
\* ctx.createBuffer(1, Math.floor(SAMPLE_RATE * Math.max(0.1, duration)), SAMPLE_RATE)
createSilenceBuffer(duration) == AudioBuffer(Max(SAMPLE_RATE \div 10, duration), TRUE)

\* scoreStyle: enum ['happy', 'sad', 'tense', 'mysterious', 'romantic', 'neutral']
ScoreStyles == {"happy", "sad", "tense", "mysterious", "romantic", "neutral"}

\* (style === 'tense' || style === 'happy') ? 120 : 70
Tempo(style) == IF style \in {"tense", "happy"} THEN 120 ELSE 70

\* generateAdvancedScore(duration, style), the duration in sample periods: a
\* second of silence for 'neutral', otherwise whole measures rendered over
\* Math.min(duration, 64)
generateAdvancedScore(duration, style) ==
  IF style = "neutral"
    THEN createSilenceBuffer(SAMPLE_RATE)
    ELSE LET cappedDuration == Min(duration, 64 * SAMPLE_RATE)
             \* measureTime = 240 / tempo seconds
             measures == (cappedDuration * Tempo(style) + 240 * SAMPLE_RATE - 1)
                           \div (240 * SAMPLE_RATE)
         IN  AudioBuffer((measures * 240 * SAMPLE_RATE) \div Tempo(style), FALSE)

\* the clips decoded from a speech response
RECURSIVE ClipsOfLength(_)
ClipsOfLength(n) ==
  IF n = 0 THEN {<<>>}
  ELSE {Append(c, x) : c \in ClipsOfLength(n - 1), x \in SampleValues}

PcmInputs == UNION {ClipsOfLength(n) : n \in 0..MaxBlocks}

\* total durations generateTrackBuffers asks a score for: 1 s, 2 s, 2.62 s, 65 s
ScoreDurations == {SAMPLE_RATE, 2 * SAMPLE_RATE, 62880, 65 * SAMPLE_RATE}

EngineInit ==
  /\ CacheIdle
  /\ QueueIdle
  /\ PureIdle
  /\ AppIdle
  /\ TransportIdle
  /\ pcmData \in PcmInputs
  /\ trimmedData = <<>>
  /\ scoreCall = <<>>
  /\ castingCall = <<>>

engineFrame == <<cacheVars, queueVars, pureVars, appVars, transportVars, castingCall>>

\* generateSpeech: rawAudio = trimSilenceRaw(rawAudio)
RunTrimSilence ==
  /\ trimmedData = <<>>
  /\ trimmedData' = <<trimSilenceRaw(pcmData)>>
  /\ UNCHANGED <<pcmData, scoreCall, engineFrame>>

\* the trimmed clip is trimmed once more
RunTrimAgain ==
  /\ Len(trimmedData) = 1
  /\ trimmedData' = Append(trimmedData, trimSilenceRaw(trimmedData[1]))
  /\ UNCHANGED <<pcmData, scoreCall, engineFrame>>

\* generateTrackBuffers: generateAdvancedScore(totalDuration, scene.scoreStyle)
CallGenerateAdvancedScore(duration, style) ==
  /\ scoreCall = <<>>
  /\ scoreCall' = <<[duration |-> duration, style |-> style,
                     buffer |-> generateAdvancedScore(duration, style)]>>
  /\ UNCHANGED <<pcmData, trimmedData, engineFrame>>

RunGenerateAdvancedScore ==
  \E duration \in ScoreDurations, style \in ScoreStyles :
    CallGenerateAdvancedScore(duration, style)

EngineNext ==
  \/ RunTrimSilence
  \/ RunTrimAgain
  \/ RunGenerateAdvancedScore

EngineSpec == EngineInit /\ [][EngineNext]_vars

\* C21: the neutral score is silence of the requested duration. Whenever
\* generateAdvancedScore was called with style 'neutral', the buffer it
\* returned is all zero and as long as the duration asked for.
C21_NeutralScoreIsSilence ==
  \A call \in {scoreCall[i] : i \in DOMAIN scoreCall} :
    call.style = "neutral" =>
      /\ call.buffer.silent
      /\ call.buffer.length = call.duration

\* C22: silence trimming is idempotent. Trimming the clip trimSilenceRaw
\* returned gives the same samples again, whether the first call cut the
\* clip or returned it untouched.
C22_TrimIdempotent ==
  Len(trimmedData) = 2 => trimmedData[2] = trimmedData[1]

\* A clip with a quiet head and tail around at least 50 ms of sound was cut
\* by the first call and trimmed again.
C22_Witness ==
  /\ Len(trimmedData) = 2
  /\ Len(pcmData) > 0
  /\ IsQuiet(pcmData[1])
  /\ IsQuiet(pcmData[Len(pcmData)])
  /\ Len(trimmedData[1]) < Len(pcmData)
  /\ Len(trimmedData[1]) * BlockSamples >= MinTrimmedSamples


\* the string s holds the string t
Contains(s, t) == \E i \in 1..(Len(s) - Len(t) + 1) : SubSeq(s, i, i + Len(t) - 1) = t

\* the speech jobs queued for the analysis result on display
CurrentSpeechJobs ==
  {j \in DOMAIN jobInfo : jobInfo[j].kind = "tts" /\ jobInfo[j].result = calls.prefetchAudio}

\* the speech task a job was queued for
TaskOfJob(j) == createSpeechTasks(parsedData[1].segments)[jobInfo[j].task]

\* C23: delivery instruction. Of the speech jobs queued for an analysis
\* result, by prefetch and by commit, every narrator job carries the same
\* instruction, which names no emotion of a segment, and every character job
\* carries an instruction that holds the speaker's name and the emotion tag
\* of each segment of its task.
C23_DeliveryInstruction ==
  (parsedData # <<>> /\ status \in {"reviewing", "generating_speech", "mixing", "playing"}) =>
    \A j \in CurrentSpeechJobs :
      LET task == TaskOfJob(j)
          segs == parsedData[1].segments
      IN  IF task.isNarrator
            THEN /\ \A k \in CurrentSpeechJobs :
                      TaskOfJob(k).isNarrator => jobInfo[k].context = jobInfo[j].context
                 /\ \A i \in DOMAIN segs : ~Contains(jobInfo[j].context, segs[i].emotion)
            ELSE /\ Contains(jobInfo[j].context, task.speaker)
                 /\ \A i \in {task.indices[n] : n \in DOMAIN task.indices} :
                      Contains(jobInfo[j].context, segs[i].emotion)


(***************************************************************************)
(* The voice casting of handleAnalyze on its own.                          *)
(***************************************************************************)

\* who speaks, segment by segment, in the analysis results cast
SpeakerLists ==
  {<<"Narrator">>, <<"Narrator", "Sarah">>, <<"I", "Narrator">>, <<"Me", "I">>,
   <<"Sarah", "Me">>, <<"Sarah", "Tom", "Sarah">>}

\* the gender the Text Analysis Service gives each speaker; none for "I"
SpeakerGender(name) ==
  CASE name = "Sarah" -> "female"
    [] name \in {"Tom", "Me"} -> "male"
    [] name = "Narrator" -> "neutral"
    [] OTHER -> ""

\* scene.protagonistName as the service may fill it in
ProtagonistNames == {"", "Sarah", "I", "Narrator"}

\* the analysis results cast: every speaker list in third person and, with
\* every protagonist name, in first person
CastingResults ==
  {[segments |-> [i \in DOMAIN speakers |->
                    AppSegment(<<"a">>, speakers[i], speakers[i] = "Narrator",
                               SpeakerGender(speakers[i]), "Calm", "")],
    scene |-> <<scene>>] :
     speakers \in SpeakerLists,
     scene \in {Scene("third_person", "")}
                 \cup {Scene("first_person", n) : n \in ProtagonistNames}}

CastingInit ==
  /\ CacheIdle
  /\ QueueIdle
  /\ PureIdle
  /\ AppIdle
  /\ TransportIdle
  /\ FnIdle

\* handleAnalyze, lines 213 to 244: the profiles it builds for a result
CastProfiles ==
  /\ castingCall = <<>>
  /\ \E result \in CastingResults :
       \E profiles \in Castings(result) :
         castingCall' = <<[result |-> result, profiles |-> profiles]>>
  /\ UNCHANGED <<cacheVars, queueVars, pureVars, appVars, transportVars,
                 pcmData, trimmedData, scoreCall>>

CastingNext == CastProfiles

CastingSpec == CastingInit /\ [][CastingNext]_vars

\* the profiles of a casting that carry a name
ProfilesNamed(profiles, names) == {i \in DOMAIN profiles : profiles[i].name \in names}

\* C24: narrator voice selection. Every casting holds exactly one profile
\* named Narrator, the last one. Its voice is 'Fenrir' in third person; in
\* first person it is the voice of the profile named like the protagonist,
\* else the voice of a profile named 'I' or 'Me', else 'Puck'.
C24_NarratorVoice ==
  \A call \in {castingCall[i] : i \in DOMAIN castingCall} :
    LET profiles == call.profiles
        scene == call.result.scene[1]
        narrators == ProfilesNamed(profiles, {"Narrator"})
        characters == DOMAIN profiles \ narrators
        protagonists == {i \in characters : profiles[i].name = scene.protagonistName}
        pronouns == {i \in characters : profiles[i].name \in {"I", "Me"}}
        narratorVoice == profiles[Len(profiles)].voiceId
    IN  /\ narrators = {Len(profiles)}
        /\ IF scene.narrativePerspective = "third_person" THEN narratorVoice = "Fenrir"
           ELSE IF protagonists # {}
             THEN \A i \in protagonists : narratorVoice = profiles[i].voiceId
           ELSE IF pronouns # {}
             THEN \E i \in pronouns : narratorVoice = profiles[i].voiceId
           ELSE narratorVoice = "Puck"

\* A first-person result whose protagonist is not among the speakers while
\* 'Me' is: the narrator got the voice cast for 'Me', neither the narrator
\* voice nor the default.
C24_Witness ==
  /\ castingCall # <<>>
  /\ castingCall[1].result.scene[1] = Scene("first_person", "Sarah")
  /\ ProfilesNamed(castingCall[1].profiles, {"Sarah"}) = {}
  /\ \E i \in ProfilesNamed(castingCall[1].profiles, {"Me"}) :
       /\ castingCall[1].profiles[i].voiceId = "Charon"
       /\ castingCall[1].profiles[Len(castingCall[1].profiles)].voiceId = "Charon"


\* C25: source ownership. While the transport is stopped no track source is
\* live; while it plays, exactly one source per track is live and sourcesRef
\* holds it. No source is live outside sourcesRef, so a pause or an auto-stop
\* can still stop every source that was ever started.
C25_SourceOwnership ==
  /\ orphans = {}
  /\ IF isPlaying THEN FourSourcesHeld ELSE NoSourceHeld


\* the commit jobs of the run whose speech task, of non-blank text, has completed
CompletedSpeechTasks ==
  {t \in run.jobs :
     /\ jobInfo[t].phase = "commit"
     /\ jobInfo[t].kind = "tts"
     /\ ~WhiteSpaceOnly(jobInfo[t].text)
     /\ CompletedOk(t)}

RECURSIVE SumOfDurations(_, _)
SumOfDurations(segs, indices) ==
  IF indices = <<>> THEN 0
  ELSE segs[Head(indices)].speechDuration + SumOfDurations(segs, Tail(indices))

\* C26: clip ownership in merged tasks. Once a speech task of non-blank text
\* has completed, its first segment holds the synthesized clip and its other
\* segments hold none; every segment of the task carries the voice the task
\* was spoken with and, as speech duration, the clip's duration times its
\* share of the characters of the task's segments; the durations of the task
\* add up to the duration of the clip.
C26_ClipOwnership ==
  \A t \in CompletedSpeechTasks :
    LET task == speechTasks[jobInfo[t].task]
        clip == ClipLength(jobInfo[t].text)
        totalChars == TotalChars(segments, task.indices)
    IN  /\ clip > 0
        /\ \A n \in DOMAIN task.indices :
             LET idx == task.indices[n]
             IN  /\ voiceBuffers[idx] = (IF n = 1 THEN clip ELSE NullBuffer)
                 /\ segments[idx].assignedVoiceId = jobInfo[t].voiceId
                 /\ segments[idx].assignedVoiceId # ""
                 /\ segments[idx].speechDuration * totalChars
                      = clip * Len(segments[idx].text)
        /\ SumOfDurations(segments, task.indices) = clip

\* The task merged from two segments has completed: the first holds the clip,
\* the second none, and each has half of the duration.
C26_Witness ==
  \E t \in CompletedSpeechTasks :
    LET task == speechTasks[jobInfo[t].task]
    IN  /\ Len(task.indices) = 2
        /\ voiceBuffers[task.indices[1]] = ClipLength(jobInfo[t].text)
        /\ voiceBuffers[task.indices[2]] = NullBuffer
        /\ segments[task.indices[2]].speechDuration > 0


\* the segments whose clip stitchToBuffer places on the timeline
PlacedClips == {i \in DOMAIN voiceBuffers : voiceBuffers[i] # NullBuffer}

\* the run has computed its timeline: generateTrackBuffers was called
TimelineComputed == run.pc \in {"reverb", "rendering", "done"}

\* C27: no overlap on the timeline. With the clips and speech durations the
\* generation run produced, any two placed speech clips occupy disjoint
\* sample ranges [start, start + clip length): the later of the two starts
\* no earlier than the other ends.
C27_NoOverlap ==
  TimelineComputed =>
    \A i, j \in PlacedClips :
      i < j => timing.startTimes[i] + voiceBuffers[i] <= timing.startTimes[j]

\* The timeline of a run whose merged task is followed by nothing and
\* preceded by the narrator's clip: two clips are placed, the second after
\* the first has ended.
C27_Witness ==
  /\ TimelineComputed
  /\ \E i, j \in PlacedClips :
       /\ i < j
       /\ voiceBuffers[i] > 0
       /\ voiceBuffers[j] > 0
       /\ timing.startTimes[i] + voiceBuffers[i] < timing.startTimes[j]
  /\ \E k \in DOMAIN voiceBuffers : k \notin PlacedClips /\ segments[k].speechDuration > 0


(* ------------- ReanalysisSpec: the default text analysed again ---------- *)
\* how often the Analyze button is pressed
MaxReanalyses == 2

\* the component with the pools it builds, showing the default text
ReanalysisInit ==
  /\ AppInit
  /\ concurrency["tts"] = TtsConcurrency

\* Analyze is pressed on the page as loaded, and again after a generation
\* run has failed
Reanalyze ==
  /\ calls.handleAnalyze = 0 \/ run.pc = "failed"
  /\ HandleAnalyzeWithin(MaxReanalyses)

\* Generate is pressed for the first script only
GenerateOnce == run.pc = "none" /\ HandleGenerateAudio

ReanalysisNext ==
  \/ Reanalyze
  \/ AnalyzeTextReturns
  \/ GenerateOnce
  \/ ResumeJob
  \/ JoinResolves
  \/ JoinRejects
  \/ MixRenders
  \/ AppSpeechReturns
  \/ AppSfxReturns

ReanalysisSpec == ReanalysisInit /\ [][ReanalysisNext]_vars


\* a segment as the analysis produced it: no voice assigned, no duration
Fresh(segs) ==
  \A i \in DOMAIN segs : segs[i].assignedVoiceId = "" /\ segs[i].speechDuration = 0

\* C28: fresh segments per analysis run. While the script that analyzeText
\* returned is under review (no generation run has been started for it), its
\* segments carry no assigned voice and no speech duration, whatever an
\* earlier run wrote to the segments of an earlier result for the same text.
C28_FreshSegments ==
  (status = "reviewing" /\ parsedData # <<>>) => Fresh(parsedData[1].segments)


(* --------------- AppFairSpec: the component on a live event loop -------- *)
\* pools of one slot each, which the tasks of one script fill
AppFairInit ==
  /\ AppInit
  /\ concurrency = [p \in Pools |-> 1]

\* the handlers and callbacks of the component, the text left as loaded
AppFairNext ==
  \/ HandleAnalyze
  \/ AnalyzeTextReturns
  \/ HandleGenerateAudio
  \/ ResumeJob
  \/ JoinResolves
  \/ JoinRejects
  \/ MixRenders
  \/ AppSpeechReturns
  \/ AppSfxReturns

\* The component under the assumptions that every request to the Text
\* Analysis Service and the Speech Synthesis Service and every effect render
\* eventually returns, and that the event loop eventually runs every promise
\* reaction that is ready. Nothing is assumed of the user, who may never
\* press a button.
AppFairSpec ==
  /\ AppFairInit
  /\ [][AppFairNext]_vars
  /\ WF_vars(AnalyzeTextReturns)
  /\ WF_vars(AppSpeechReturns)
  /\ WF_vars(AppSfxReturns)
  /\ WF_vars(ResumeJob)
  /\ WF_vars(JoinResolves)
  /\ WF_vars(JoinRejects)

\* every task given to a pool has settled
AllTasksSettled == \A t \in DOMAIN jobs : jobs[t].state \in {"resolved", "rejected"}

\* the requests of a pool's tasks that have not returned
InFlight(pool) ==
  {p \in DOMAIN promises : promises[p].kind = pool /\ promises[p].state = "pending"}

\* C29: shared-pool progress. If every service call eventually returns, the
\* tasks that prefetch and commit queued on the pools all settle, whatever
\* keys they share; a generation run that waits for its tasks reaches
\* 'mixing' or 'error'; and at no time does a pool hold more running tasks,
\* or more requests in flight, than its concurrency limit.
C29_SharedPoolProgress ==
  /\ []<>AllTasksSettled
  /\ (status = "generating_speech") ~> (status \in {"mixing", "error"})
  /\ [](\A pool \in Pools :
          /\ active[pool] <= concurrency[pool]
          /\ Cardinality(InFlight(pool)) <= active[pool])

\* a commit task waits in the queue of the speech pool, whose slots are
\* taken, while the request that prefetch started for the same key is in
\* flight
C29_Witness ==
  /\ status = "generating_speech"
  /\ \E t, u \in DOMAIN jobs :
       /\ jobInfo[t].phase = "commit" /\ jobInfo[t].kind = "tts"
       /\ jobs[t].state = "queued"
       /\ active["tts"] = concurrency["tts"]
       /\ jobInfo[u].phase = "prefetch" /\ jobInfo[u].kind = "tts"
       /\ jobs[u].state = "running"
       /\ KeyOf(jobInfo[u]) = KeyOf(jobInfo[t])
       /\ jobInfo[u].awaits \in InFlight("tts")


(* ------------------------- the status workflow ------------------------- *)
\* the moves of the workflow: forward along the pipeline, to 'error' from the
\* three working states, and from 'error' into a new analysis
WorkflowEdges ==
  {<<"idle", "analyzing">>, <<"error", "analyzing">>,
   <<"analyzing", "reviewing">>, <<"analyzing", "error">>,
   <<"reviewing", "generating_speech">>,
   <<"generating_speech", "mixing">>, <<"generating_speech", "error">>,
   <<"mixing", "playing">>, <<"mixing", "error">>}

\* a handleAnalyze call got past its guard
AnalysisStarts == analysis.state = "none" /\ analysis'.state = "awaiting"

\* a handleGenerateAudio call was made
GenerationStarts == run' # run /\ run'.pc = "awaiting"

\* C30: the processing status workflow. Every change of status is a move of
\* the workflow; an analysis run starts only in 'idle' or 'error' and a
\* generation run only in 'reviewing'; audio tracks are held only in
\* 'playing'; and 'playing' is never left.
C30_StatusWorkflow ==
  /\ [](audioTracks # <<>> => status = "playing")
  /\ [][/\ status' # status => <<status, status'>> \in WorkflowEdges
        /\ AnalysisStarts => status \in {"idle", "error"}
        /\ GenerationStarts => status = "reviewing"
        /\ status = "playing" => status' = "playing"]_vars

\* a run went through the whole workflow and holds its tracks
C30_Witness ==
  /\ status = "playing"
  /\ audioTracks # <<>>
  /\ calls.generateTrackBuffers = 1
  /\ run.pc = "done"

=============================================================================
